---- MODULE Spec2Model ----
(***************************************************************************)
(* Slab allocator (kernel/slab.c) on top of the page-frame allocator       *)
(* (kernel/kalloc.c) of xv6-riscv, as a state machine.                     *)
(*                                                                         *)
(* Memory is word-addressed and sparse: every 4 KiB frame is a fill byte   *)
(* (the last memset) plus the words written since.  Slab headers, cache    *)
(* descriptors, free-list links and object payloads all live in that       *)
(* memory at the offsets the C structs give them, so a read of a freed or  *)
(* recycled frame sees what the machine would see.                         *)
(*                                                                         *)
(* Encoding of machine words:                                              *)
(*   - 64-bit cells hold an address (a natural below 2^31), 0 for null, or *)
(*     a negative number naming a byte pattern that is not an address:     *)
(*     -b is the memset fill 0x0b0b0b0b0b0b0b0b, PAT_CTOR and PAT_CLIENT   *)
(*     are the test patterns.                                              *)
(*   - 32-bit cells (uint) hold the int32 with the same bit pattern, so    *)
(*     arithmetic modulo 2^32 is exact (Add32, And32, Not32, Gt32).        *)
(***************************************************************************)
EXTENDS Integers, Sequences, FiniteSets, TLC

\* ---------------------------------------------------------------- bounds
NCPU == 2
NFrames == 6
MaxCaches == 2
MaxLive == 5
MaxCalls == 3
MaxCreates == 2
MaxFrees == 3

\* ------------------------------------------------------ program constants
PGSIZE == 4096
SUPERPGSIZE == 2097152
NSUPERPAGES == 8
DEFAULT_ALIGN == 64
MAX_CACHES == 64
MIN_OBJ_SIZE == 8
NULL == 0

\* First address after the kernel image and the layout kinit derives from it.
KernelEnd == 2093056
SuperStart == ((KernelEnd + SUPERPGSIZE - 1) \div SUPERPGSIZE) * SUPERPGSIZE
FrameBase == SuperStart + NSUPERPAGES * SUPERPGSIZE
PHYSTOP == FrameBase + NFrames * PGSIZE
Frames == {FrameBase + i * PGSIZE : i \in 0..(NFrames - 1)}

\* struct slab field offsets (LP64)
S_next == 0
S_cache == 8
S_mem == 16
S_nr_objs == 24
S_nr_free == 28
S_freelist == 32

\* struct kmem_cache field offsets (LP64)
C_objsize == 32
C_align == 36
C_ctor == 40
C_dtor == 48
C_partial == 56
C_full == 64
C_empty == 72
C_lock == 80

\* Addresses of the test callbacks and the patterns they and the client write.
test_ctor == 16
test_dtor == 24
PAT_CTOR == -100
PAT_CLIENT == -200

CPUs == 1..NCPU

\* ------------------------------------------------------- 32-bit arithmetic
Lo16(x) == x % 65536
Hi16(x) == ((x - Lo16(x)) \div 65536) % 65536
Mk32(hi, lo) == IF hi >= 32768 THEN (hi - 65536) * 65536 + lo ELSE hi * 65536 + lo

RECURSIVE BitAnd(_, _)
BitAnd(x, y) ==
  IF x = 0 \/ y = 0 THEN 0
  ELSE (x % 2) * (y % 2) + 2 * BitAnd(x \div 2, y \div 2)

Add32(a, b) ==
  LET lo == Lo16(a) + Lo16(b)
      hi == Hi16(a) + Hi16(b) + (lo \div 65536)
  IN Mk32(hi % 65536, lo % 65536)
And32(a, b) == Mk32(BitAnd(Hi16(a), Hi16(b)), BitAnd(Lo16(a), Lo16(b)))
Not32(a) == Mk32(65535 - Hi16(a), 65535 - Lo16(a))
\* unsigned a > b
Gt32(a, b) == IF (a < 0) = (b < 0) THEN a > b ELSE a < 0

\* Mutant: the size is not rounded up to the alignment.
align_size_NoRound(size, align) == size

align_size(size, align) ==
  LET al == IF align = 0 THEN DEFAULT_ALIGN ELSE align
  IN And32(Add32(Add32(size, al), -1), Not32(Add32(al, -1)))

\* ------------------------------------------------------------------ memory
NoWords == [x \in {} |-> 0]
PageOf(a) == a - (a % PGSIZE)
Off(a) == a % PGSIZE
Mapped(a) == a > 0 /\ PageOf(a) \in Frames

Fill8(b) == 0 - b
Fill4(b) == b * 16843009

Rd(m, a) ==
  LET f == PageOf(a) o == Off(a)
  IN IF o \in DOMAIN m[f].w THEN m[f].w[o] ELSE Fill8(m[f].fill)
Rd4(m, a) ==
  LET f == PageOf(a) o == Off(a)
  IN IF o \in DOMAIN m[f].w THEN m[f].w[o] ELSE Fill4(m[f].fill)
Wr(m, a, v) == [m EXCEPT ![PageOf(a)].w = (Off(a) :> v) @@ @]
Memset(m, f, b) == [m EXCEPT ![f] = [fill |-> b, w |-> NoWords]]

\* -------------------------------------------------- page-frame allocator
\* A heap h is [mem, fl, bad]: the memory, kmem.freelist, and how the
\* sequential code running over it has stopped, if it has: "" (running),
\* "panic" (panic() was called), "trap" (load or store through an address
\* the kernel page table does not map, which kerneltrap turns into a
\* panic), "hang" (a loop that never ends), "wild" (a store into memory
\* outside the 4 KiB frame region).

\* kfree(pa): validate, poison, push.
kfree(h, pa) ==
  IF h.bad # "" THEN h
  ELSE IF pa < 0 \/ pa % PGSIZE # 0 \/ pa < KernelEnd \/ pa >= PHYSTOP
       THEN [h EXCEPT !.bad = "panic"]
       ELSE IF pa \notin Frames THEN [h EXCEPT !.bad = "wild"]
       ELSE [h EXCEPT !.mem = Wr(Memset(h.mem, pa, 1), pa, h.fl), !.fl = pa]

\* Mutant: the frame is handed out without being unlinked.
kalloc_NoUnlink(h) ==
  LET r == h.fl
  IN IF r = NULL THEN [h |-> h, r |-> NULL]
     ELSE [h |-> [h EXCEPT !.mem = Wr(Memset(h.mem, r, 5), r, Rd(h.mem, r))], r |-> r]

\* kalloc(): pop and fill with junk.  Returns [h, r].
kalloc(h) ==
  LET r == h.fl
  IN IF r = NULL THEN [h |-> h, r |-> NULL]
     ELSE [h |-> [h EXCEPT !.fl = Rd(h.mem, r), !.mem = Memset(h.mem, r, 5)], r |-> r]

\* freerange(p, PHYSTOP) at kinit: kfree of every frame in ascending order.
RECURSIVE freerange(_, _)
freerange(h, p) ==
  IF p + PGSIZE <= PHYSTOP THEN freerange(kfree(h, p), p + PGSIZE) ELSE h

BootHeap ==
  freerange([mem |-> [f \in Frames |-> [fill |-> 0, w |-> NoWords]], fl |-> NULL, bad |-> ""],
            FrameBase)

\* The reserved super-frames.  Of the 512 pages of a super-frame the memory
\* keeps the first, which holds the free-list link, and the last; a fill of the
\* super-frame fills both.
Supers == {SuperStart + i * SUPERPGSIZE : i \in 0..(NSUPERPAGES - 1)}
SuperPages(s) == {s, s + SUPERPGSIZE - PGSIZE}
MemsetSuper(m, s, b) ==
  [f \in DOMAIN m |-> IF f \in SuperPages(s) THEN [fill |-> b, w |-> NoWords] ELSE m[f]]

\* The super-frame loop of kinit: every super-frame, in ascending order, is
\* pushed onto supermem.freelist.  Returns [mem, fl].
RECURSIVE kinit_supers(_, _, _)
kinit_supers(m, fl, i) ==
  IF i >= NSUPERPAGES THEN [mem |-> m, fl |-> fl]
  ELSE kinit_supers(Wr(m, SuperStart + i * SUPERPGSIZE, fl),
                    SuperStart + i * SUPERPGSIZE, i + 1)

BootSuper ==
  kinit_supers([f \in UNION {SuperPages(s) : s \in Supers} |-> [fill |-> 0, w |-> NoWords]],
               NULL, 0)

\* The chain that starts at address a and goes on through the word at
\* offset 0 of each node (the free-list link of a free frame or free object,
\* the next field of a slab), cut after n nodes.
RECURSIVE LinkChain(_, _, _)
LinkChain(m, a, n) ==
  IF a = NULL \/ n = 0 \/ ~Mapped(a) THEN <<>>
  ELSE <<a>> \o LinkChain(m, Rd(m, a), n - 1)

\* That chain reaches null within n nodes.
RECURSIVE LinkEnds(_, _, _)
LinkEnds(m, a, n) ==
  IF a = NULL THEN TRUE
  ELSE IF n = 0 \/ ~Mapped(a) THEN FALSE
  ELSE LinkEnds(m, Rd(m, a), n - 1)

Range(q) == {q[i] : i \in 1..Len(q)}
Distinct(q) == \A i, j \in 1..Len(q) : i # j => q[i] # q[j]

\* ------------------------------------------------------------ slab engine
Stop(h, why) == IF h.bad # "" THEN h ELSE [h EXCEPT !.bad = why]

\* Predecessor search of slab_remove: the slab whose next is `slab`, NULL when
\* the chain ends first, -1 when the walk goes on for ever.
RECURSIVE FindPrev(_, _, _, _)
FindPrev(m, prev, slab, n) ==
  IF prev = NULL THEN NULL
  ELSE IF ~Mapped(prev) THEN -2
  ELSE IF Rd(m, prev + S_next) = slab THEN prev
  ELSE IF n = 0 THEN -1
  ELSE FindPrev(m, Rd(m, prev + S_next), slab, n - 1)

slab_remove(h, list, slab) ==
  IF h.bad # "" THEN h
  ELSE IF Rd(h.mem, list) = slab
       THEN [h EXCEPT !.mem = Wr(h.mem, list, Rd(h.mem, slab + S_next))]
       ELSE LET prev == FindPrev(h.mem, Rd(h.mem, list), slab, NFrames)
            IN IF prev = -1 THEN Stop(h, "hang")
               ELSE IF prev = -2 THEN Stop(h, "trap")
               ELSE IF prev # NULL
                    THEN [h EXCEPT !.mem = Wr(h.mem, prev + S_next, Rd(h.mem, slab + S_next))]
                    ELSE h

slab_add_head(h, list, slab) ==
  IF h.bad # "" THEN h
  ELSE [h EXCEPT !.mem = Wr(Wr(h.mem, slab + S_next, Rd(h.mem, list)), list, slab)]

\* The freelist loop of slab_create: object i links to object i + 1, the
\* last one to null.
BuildFreelist(m, page, objsize, nr_objs, i) ==
  LET objs == {page + k * objsize : k \in i..(nr_objs - 1)}
      link(obj) == IF obj = page + (nr_objs - 1) * objsize THEN NULL ELSE obj + objsize
  IN [f \in DOMAIN m |->
        [m[f] EXCEPT !.w =
           [o \in {Off(obj) : obj \in {x \in objs : PageOf(x) = f}} |-> link(f + o)] @@ @]]

\* Mutant: one object too many per slab.
slab_create_OneMore(h, cache) ==
  LET objsize == Rd4(h.mem, cache + C_objsize)
      k1 == kalloc(h)
      k2 == kalloc(k1.h)
      page == k1.r
      slab == k2.r
      nr == PGSIZE \div objsize + 1
  IN IF Gt32(objsize, PGSIZE) \/ page = NULL THEN [h |-> h, r |-> NULL]
     ELSE IF slab = NULL THEN [h |-> kfree(k2.h, page), r |-> NULL]
     ELSE [h |-> [k2.h EXCEPT !.mem =
                    Wr(BuildFreelist(
                         Wr(Wr(Wr(Wr(Wr(k2.h.mem, slab + S_cache, cache), slab + S_mem, page),
                                  slab + S_nr_objs, nr), slab + S_nr_free, nr),
                            slab + S_next, NULL),
                         page, objsize, nr, 0),
                       slab + S_freelist, page)],
           r |-> slab]

\* Mutant: the object page is not given back when the second kalloc fails.
slab_create_LeakPage(h, cache) ==
  LET objsize == Rd4(h.mem, cache + C_objsize)
      k1 == kalloc(h)
      k2 == kalloc(k1.h)
      page == k1.r
      slab == k2.r
      nr == PGSIZE \div objsize
  IN IF Gt32(objsize, PGSIZE) THEN [h |-> h, r |-> NULL]
     ELSE IF page = NULL THEN [h |-> k1.h, r |-> NULL]
     ELSE IF slab = NULL THEN [h |-> k2.h, r |-> NULL]
     ELSE [h |-> [k2.h EXCEPT !.mem =
                    Wr(BuildFreelist(
                         Wr(Wr(Wr(Wr(Wr(k2.h.mem, slab + S_cache, cache), slab + S_mem, page),
                                  slab + S_nr_objs, nr), slab + S_nr_free, nr),
                            slab + S_next, NULL),
                         page, objsize, nr, 0),
                       slab + S_freelist, page)],
           r |-> slab]

\* PGSIZE / cache->objsize on uint.  objsize is 0 when align_size wrapped;
\* the RISC-V unsigned divide then yields all ones and does not trap.
PerSlab(objsize) == IF objsize = 0 THEN -1 ELSE PGSIZE \div objsize

\* slab_create(cache).  Returns [h, r].  With objsize 0 every pass of the
\* freelist loop stores into the first word of the page, the last one null.
slab_create(h, cache) ==
  LET objsize == Rd4(h.mem, cache + C_objsize)
  IN IF Gt32(objsize, PGSIZE) THEN [h |-> h, r |-> NULL]
     ELSE LET k1 == kalloc(h)
              page == k1.r
          IN IF page = NULL THEN [h |-> k1.h, r |-> NULL]
             ELSE LET k2 == kalloc(k1.h)
                      slab == k2.r
                  IN IF slab = NULL THEN [h |-> kfree(k2.h, page), r |-> NULL]
                     ELSE LET nr_objs == PerSlab(objsize)
                              m1 == Wr(k2.h.mem, slab + S_cache, cache)
                              m2 == Wr(m1, slab + S_mem, page)
                              m3 == Wr(m2, slab + S_nr_objs, nr_objs)
                              m4 == Wr(m3, slab + S_nr_free, nr_objs)
                              m5 == Wr(m4, slab + S_next, NULL)
                              m6 == IF objsize = 0 THEN Wr(m5, page, NULL)
                                    ELSE BuildFreelist(m5, page, objsize, nr_objs, 0)
                              m7 == Wr(m6, slab + S_freelist, page)
                          IN [h |-> [k2.h EXCEPT !.mem = m7], r |-> slab]

\* slab_destroy(slab)
slab_destroy(h, slab) ==
  IF slab = NULL \/ h.bad # "" THEN h
  ELSE kfree(kfree(h, Rd(h.mem, slab + S_mem)), slab)
\* Mutant: the name is not tested for null.
kmem_cache_create_NoNameCheck(h, name, objsize, ctor, dtor, align) ==
  IF Gt32(MIN_OBJ_SIZE, objsize) THEN [h |-> h, r |-> NULL]
  ELSE LET k == kalloc(h)
           cache == k.r
       IN IF cache = NULL THEN [h |-> k.h, r |-> NULL]
          ELSE [h |-> [k.h EXCEPT !.mem =
                         Wr(Wr(Wr(Wr(Wr(Wr(Wr(Wr(k.h.mem,
                            cache + C_objsize, align_size(objsize, align)),
                            cache + C_align, align), cache + C_ctor, ctor),
                            cache + C_dtor, dtor), cache + C_partial, NULL),
                            cache + C_full, NULL), cache + C_empty, NULL),
                            cache + C_lock, 0)],
                r |-> cache]

\* kmem_cache_create(name, objsize, ctor, dtor, align).  Returns [h, r].
kmem_cache_create(h, name, objsize, ctor, dtor, align) ==
  IF name = NULL \/ Gt32(MIN_OBJ_SIZE, objsize) THEN [h |-> h, r |-> NULL]
  ELSE LET k == kalloc(h)
           cache == k.r
       IN IF cache = NULL THEN [h |-> k.h, r |-> NULL]
          ELSE LET m1 == Wr(k.h.mem, cache + C_objsize, align_size(objsize, align))
                   m2 == Wr(m1, cache + C_align, align)
                   m3 == Wr(m2, cache + C_ctor, ctor)
                   m4 == Wr(m3, cache + C_dtor, dtor)
                   m5 == Wr(m4, cache + C_partial, NULL)
                   m6 == Wr(m5, cache + C_full, NULL)
                   m7 == Wr(m6, cache + C_empty, NULL)
                   m8 == Wr(m7, cache + C_lock, 0)
               IN [h |-> [k.h EXCEPT !.mem = m8], r |-> cache]

\* Mutant: the pop leaves slab->freelist where it was.
AllocPop_KeepHead(h, slab) ==
  LET obj == Rd(h.mem, slab + S_freelist)
      nf == Add32(Rd4(h.mem, slab + S_nr_free), -1)
  IN [h |-> [h EXCEPT !.mem = Wr(h.mem, slab + S_nr_free, nf)], obj |-> obj, nr_free |-> nf]

\* The pop shared by the three branches of kmem_cache_alloc, followed by the
\* list move of the branch taken.  Returns [h, obj].
AllocPop(h, slab) ==
  LET obj == Rd(h.mem, slab + S_freelist)
  IN IF ~Mapped(obj) THEN [h |-> Stop(h, "trap"), obj |-> obj, nr_free |-> 0]
     ELSE LET nf == Add32(Rd4(h.mem, slab + S_nr_free), -1)
              m1 == Wr(h.mem, slab + S_freelist, Rd(h.mem, obj))
              m2 == Wr(m1, slab + S_nr_free, nf)
          IN [h |-> [h EXCEPT !.mem = m2], obj |-> obj, nr_free |-> nf]

AllocFromPartial(h, cache, slab) ==
  LET p == AllocPop(h, slab)
  IN IF p.h.bad = "" /\ p.nr_free = 0
     THEN [h |-> slab_add_head(slab_remove(p.h, cache + C_partial, slab), cache + C_full, slab),
           obj |-> p.obj]
     ELSE [h |-> p.h, obj |-> p.obj]

AllocFromEmpty(h, cache, slab) ==
  LET p == AllocPop(h, slab)
  IN [h |-> slab_add_head(slab_remove(p.h, cache + C_empty, slab), cache + C_partial, slab),
      obj |-> p.obj]

AllocFromNew(h, cache, slab) ==
  LET p == AllocPop(h, slab)
  IN [h |-> slab_add_head(p.h, cache + C_partial, slab), obj |-> p.obj]

\* Mutant: a slab on the empty list is not reused.
kmem_cache_alloc_locked_SkipEmpty(h, cache) ==
  LET partial == Rd(h.mem, cache + C_partial)
  IN IF partial # NULL THEN AllocFromPartial(h, cache, partial)
     ELSE LET sc == slab_create(h, cache)
          IN IF sc.r = NULL THEN [h |-> sc.h, obj |-> NULL]
             ELSE AllocFromNew(sc.h, cache, sc.r)

\* Mutant: the empty list is tried before the partial list.
kmem_cache_alloc_locked_EmptyFirst(h, cache) ==
  LET partial == Rd(h.mem, cache + C_partial)
      empty == Rd(h.mem, cache + C_empty)
  IN IF empty # NULL THEN AllocFromEmpty(h, cache, empty)
     ELSE IF partial # NULL THEN AllocFromPartial(h, cache, partial)
     ELSE LET sc == slab_create(h, cache)
          IN IF sc.r = NULL THEN [h |-> sc.h, obj |-> NULL]
             ELSE AllocFromNew(sc.h, cache, sc.r)

\* The locked region of kmem_cache_alloc.  Returns [h, obj]; obj = NULL
\* when slab_create failed.
kmem_cache_alloc_locked(h, cache) ==
  LET partial == Rd(h.mem, cache + C_partial)
      empty == Rd(h.mem, cache + C_empty)
  IN IF partial # NULL THEN AllocFromPartial(h, cache, partial)
     ELSE IF empty # NULL THEN AllocFromEmpty(h, cache, empty)
     ELSE LET sc == slab_create(h, cache)
          IN IF sc.r = NULL THEN [h |-> sc.h, obj |-> NULL]
             ELSE AllocFromNew(sc.h, cache, sc.r)

\* One of the three lookup loops of kmem_cache_free: the first slab of the
\* chain whose frame holds obj, NULL when there is none, -1 when the loop
\* never ends, -2 when it leaves mapped memory.
RECURSIVE ScanList(_, _, _, _)
ScanList(m, s, obj, n) ==
  IF s = NULL THEN NULL
  ELSE IF ~Mapped(s) THEN -2
  ELSE IF obj >= Rd(m, s + S_mem) /\ obj < Rd(m, s + S_mem) + PGSIZE THEN s
  ELSE IF n = 0 THEN -1
  ELSE ScanList(m, Rd(m, s + S_next), obj, n - 1)

FindSlab(m, cache, obj) ==
  LET sp == ScanList(m, Rd(m, cache + C_partial), obj, NFrames)
      sf == ScanList(m, Rd(m, cache + C_full), obj, NFrames)
      se == ScanList(m, Rd(m, cache + C_empty), obj, NFrames)
  IN IF sp # NULL THEN sp ELSE IF sf # NULL THEN sf ELSE se

\* Mutant: the link is stored in the slab's first object, not in obj.
FreePush_LinkAtMem(h, cache, slab, obj) ==
  LET nf == Add32(Rd4(h.mem, slab + S_nr_free), 1)
      m1 == Wr(h.mem, Rd(h.mem, slab + S_mem), Rd(h.mem, slab + S_freelist))
      m2 == Wr(m1, slab + S_freelist, obj)
      m3 == Wr(m2, slab + S_nr_free, nf)
  IN [h EXCEPT !.mem = m3]

\* Mutant: a slab whose objects are all free is given back to the frame
\* allocator.
FreePush_Reclaim(h, cache, slab, obj) ==
  LET nf == Add32(Rd4(h.mem, slab + S_nr_free), 1)
      m1 == Wr(h.mem, obj, Rd(h.mem, slab + S_freelist))
      m2 == Wr(m1, slab + S_freelist, obj)
      m3 == Wr(m2, slab + S_nr_free, nf)
      h1 == [h EXCEPT !.mem = m3]
  IN IF nf = 1
     THEN slab_add_head(slab_remove(h1, cache + C_full, slab), cache + C_partial, slab)
     ELSE IF nf = Rd4(h1.mem, slab + S_nr_objs)
          THEN slab_destroy(slab_remove(h1, cache + C_partial, slab), slab)
          ELSE h1

\* The push and the list move of kmem_cache_free.
FreePush(h, cache, slab, obj) ==
  LET nf == Add32(Rd4(h.mem, slab + S_nr_free), 1)
      m1 == Wr(h.mem, obj, Rd(h.mem, slab + S_freelist))
      m2 == Wr(m1, slab + S_freelist, obj)
      m3 == Wr(m2, slab + S_nr_free, nf)
      h1 == [h EXCEPT !.mem = m3]
  IN IF nf = 1
     THEN slab_add_head(slab_remove(h1, cache + C_full, slab), cache + C_partial, slab)
     ELSE IF nf = Rd4(h1.mem, slab + S_nr_objs)
          THEN slab_add_head(slab_remove(h1, cache + C_partial, slab), cache + C_empty, slab)
          ELSE h1

\* Mutant: the push forgets nr_free++.
kmem_cache_free_locked_NoCount(h, cache, obj) ==
  LET slab == FindSlab(h.mem, cache, obj)
  IN IF slab = NULL THEN Stop(h, "panic")
     ELSE [h EXCEPT !.mem = Wr(Wr(h.mem, obj, Rd(h.mem, slab + S_freelist)),
                               slab + S_freelist, obj)]

\* The locked region of kmem_cache_free; bad = "panic" when no slab holds obj.
kmem_cache_free_locked(h, cache, obj) ==
  LET slab == FindSlab(h.mem, cache, obj)
  IN IF slab = NULL THEN Stop(h, "panic")
     ELSE IF slab = -1 THEN Stop(h, "hang")
     ELSE IF slab = -2 THEN Stop(h, "trap")
     ELSE FreePush(h, cache, slab, obj)

\* One of the three drain loops of kmem_cache_destroy.
RECURSIVE DrainList(_, _, _)
DrainList(h, list, n) ==
  LET slab == Rd(h.mem, list)
  IN IF h.bad # "" \/ slab = NULL THEN h
     ELSE IF ~Mapped(slab) THEN Stop(h, "trap")
     ELSE IF n = 0 THEN Stop(h, "hang")
     ELSE DrainList(slab_destroy([h EXCEPT !.mem = Wr(h.mem, list, Rd(h.mem, slab + S_next))], slab),
                    list, n - 1)

\* The locked region of kmem_cache_destroy.
kmem_cache_destroy_locked(h, cache) ==
  DrainList(DrainList(DrainList(h, cache + C_partial, 2 * NFrames),
                      cache + C_full, 2 * NFrames),
            cache + C_empty, 2 * NFrames)
\* ------------------------------------------------------------ the machine
VARIABLES
  mem,              \* physical memory of the 4 KiB frames
  kfl,              \* kmem.freelist
  panicked,         \* "" while the kernel runs, else why it stopped
  pc,               \* per CPU: where it is in the call it is executing
  arg,              \* per CPU: the cache and object of that call
  caches,           \* caches the clients have created and not destroyed
  live,             \* objects the clients hold: [c, obj]
  nlive,            \* allocations returned minus frees called
  ctor_call_count,  \* the counters of test_ctor and test_dtor
  dtor_call_count,
  alloc_ok_count,   \* allocs of a ctor cache that returned an object
  free_call_count,  \* frees of a dtor cache called with cache and object
  ncreate,          \* kmem_cache_create calls made so far
  last_create,      \* the latest kmem_cache_create call: its arguments and result
  peak,             \* per cache: the most objects that were out of it at one time
  wl,               \* the workload: CPUs in use, caches at a time, creation parameters
  klock,            \* kmem.lock: 0 or the CPU that holds it
  slock,            \* supermem.lock
  sfl,              \* supermem.freelist
  held,             \* frames and super-frames the frame allocator's direct callers hold
  nfrees,           \* kfree and superfree calls the direct callers have made
  cache_table,      \* the handle table of sysslab.c: occupied slot -> cache
  ret,              \* per CPU: what its last system call returned
  sys               \* per CPU: the system call it is in, and how far it has got

fvars == <<klock, slock, sfl, held, nfrees>>
svars == <<cache_table, ret, sys>>

vars == <<mem, kfl, panicked, pc, arg, caches, live, nlive, ctor_call_count,
          dtor_call_count, alloc_ok_count, free_call_count, ncreate, last_create, peak, wl, fvars, svars>>

Heap == [mem |-> mem, fl |-> kfl, bad |-> ""]

Cfg(size, align, cd) == [name |-> 1, size |-> size, align |-> align, cd |-> cd]
\* The same with a null name.
CfgNoName(size, align, cd) == [name |-> NULL, size |-> size, align |-> align, cd |-> cd]
MainConfigs == {Cfg(3072, 0, FALSE), Cfg(2048, 0, FALSE), Cfg(1200, 0, FALSE)}
AlignConfigs == {Cfg(100, 8, FALSE), Cfg(100, 16, FALSE), Cfg(100, 32, FALSE),
                 Cfg(100, 64, FALSE), Cfg(100, 128, FALSE), Cfg(100, 0, FALSE),
                 Cfg(100, 2048, FALSE), Cfg(100, 4096, FALSE)}

NoArg == [c |-> NULL, obj |-> NULL]
NoCreate == [cfg |-> CfgNoName(0, 0, FALSE), r |-> NULL]
\* No system call: the CPU is a kernel client or is in user space.
NoSys == [call |-> "none", st |-> "none", id |-> 0, obj |-> NULL, r |-> NULL,
          cfg |-> CfgNoName(0, 0, FALSE), isobj |-> FALSE, pre |-> <<>>, same |-> TRUE]
\* The slab engine has been entered by, and has returned x to, the system
\* call CPU p is in (kernel clients are in no system call).
Called(p, x) ==
  [sys EXCEPT ![p] = IF @.st = "enter" THEN [@ EXCEPT !.st = "called", !.r = x] ELSE @]
Returned(p, x) ==
  [sys EXCEPT ![p] = IF @.st = "called" THEN [@ EXCEPT !.r = x] ELSE @]

\* The state kinit and slab_syscall_init leave, over the memory m.
InitTable(m, t) ==
  /\ mem = m
  /\ kfl = BootHeap.fl
  /\ klock = 0
  /\ slock = 0
  /\ sfl = BootSuper.fl
  /\ held = {}
  /\ nfrees = 0
  /\ cache_table = t
  /\ ret = [p \in CPUs |-> 0]
  /\ sys = [p \in CPUs |-> NoSys]
  /\ panicked = ""
  /\ pc = [p \in CPUs |-> "idle"]
  /\ arg = [p \in CPUs |-> NoArg]
  /\ caches = {}
  /\ live = {}
  /\ nlive = 0
  /\ ctor_call_count = 0
  /\ dtor_call_count = 0
  /\ alloc_ok_count = 0
  /\ free_call_count = 0
  /\ ncreate = 0
  /\ last_create = NoCreate
  /\ peak = [f \in Frames |-> 0]

\* The slab engine's clients see the 4 KiB frames only.
InitState(m) == InitTable(m, [i \in {} |-> NULL])
InitCommon == InitState(BootHeap.mem)

\* A workload: which CPUs issue calls, how many caches exist at a time, how
\* many are created in all, the parameters kmem_cache_create is called with,
\* and whether the clients also pass null caches and null objects.
Workload(cpus, ncaches, ncreates, cfgset, nulls) ==
  [cpus |-> cpus, ncaches |-> ncaches, ncreates |-> ncreates, cfgs |-> cfgset,
   nulls |-> nulls, misuse |-> "none"]

\* Several CPUs sharing one cache, or one CPU using several caches.
MainWorkloads ==
  {Workload(CPUs, 1, 1, {cfg}, FALSE) : cfg \in MainConfigs}
    \cup {Workload({1}, MaxCaches, MaxCreates, {cfg}, FALSE) : cfg \in MainConfigs}

Init == InitCommon /\ wl \in MainWorkloads

objsize_of(m, c) == Rd4(m, c + C_objsize)
HasCtor(m, c) == Rd(m, c + C_ctor) # NULL
HasDtor(m, c) == Rd(m, c + C_dtor) # NULL
LockHolder(m, c) == Rd4(m, c + C_lock)

Running(p) == panicked = "" /\ pc[p] = "idle" /\ p \in wl.cpus
InCall(c) == {p \in CPUs : pc[p] # "idle" /\ arg[p].c = c}
AllocPcs == {"a_rel", "a_ctor", "a_ret"}
\* The objects of cache c that are out of its freelists: held by a client,
\* popped by an alloc that has not returned, or passed to a free that has not
\* pushed yet.
OutOf(c) ==
  Cardinality({l \in live : l.c = c})
    + Cardinality({q \in CPUs : pc[q] \in AllocPcs /\ arg[q].c = c /\ arg[q].obj # NULL})
    + Cardinality({q \in CPUs : pc[q] \in {"f_dtor", "f_acq"} /\ arg[q].c = c})

\* kmem_cache_create, whole call (it touches only the frame it has just taken).
Create(p, cfg) ==
  /\ Running(p)
  /\ Cardinality(caches) < wl.ncaches
  /\ ncreate < wl.ncreates
  /\ ncreate' = ncreate + 1
  /\ LET r == kmem_cache_create(Heap, cfg.name, cfg.size,
                                IF cfg.cd THEN test_ctor ELSE NULL,
                                IF cfg.cd THEN test_dtor ELSE NULL, cfg.align)
     IN /\ mem' = r.h.mem
        /\ kfl' = r.h.fl
        /\ sys' = Called(p, r.r)
        /\ last_create' = [cfg |-> cfg, r |-> r.r]
        /\ IF r.r = NULL
           THEN /\ pc' = [pc EXCEPT ![p] = "c_null"]
                /\ caches' = caches
                /\ peak' = peak
           ELSE /\ pc' = pc
                /\ caches' = caches \cup {r.r}
                /\ peak' = [peak EXCEPT ![r.r] = 0]
  /\ UNCHANGED <<panicked, arg, live, nlive, ctor_call_count, dtor_call_count,
                 alloc_ok_count, free_call_count, wl, fvars, cache_table, ret>>

\* A call that returned at its first line gives control back to the client.
Return(p) ==
  /\ panicked = ""
  /\ pc[p] \in {"c_null", "a_null", "f_null", "d_null", "a_fail"}
  /\ pc' = [pc EXCEPT ![p] = "idle"]
  /\ arg' = [arg EXCEPT ![p] = NoArg]
  /\ UNCHANGED <<mem, kfl, panicked, caches, live, nlive, ctor_call_count,
                 dtor_call_count, alloc_ok_count, free_call_count, ncreate, last_create, peak, wl, fvars, svars>>

\* acquire(&cache->lock): possible when nobody holds the lock.
Acquire(m, c, p) == Wr(m, c + C_lock, p)
release(m, c) == Wr(m, c + C_lock, 0)
LockFree(m, c) == LockHolder(m, c) = 0

\* ---- kmem_cache_alloc
\* The call: with a null cache it returns 0 at its first line; otherwise the
\* acquire and the locked region, up to the release.
AllocLocked(p, c) ==
  /\ Running(p)
  /\ sys' = Called(p, NULL)
  /\ IF c = NULL
     THEN /\ pc' = [pc EXCEPT ![p] = "a_null"]
          /\ UNCHANGED <<mem, kfl, panicked, arg, peak>>
     ELSE /\ nlive + Cardinality({q \in CPUs : pc[q] \in AllocPcs}) < MaxLive
          /\ HasCtor(mem, c) =>
               ctor_call_count
                 + Cardinality({q \in CPUs : pc[q] \in AllocPcs /\ HasCtor(mem, arg[q].c)})
                 < MaxCalls
          /\ LockFree(mem, c)
          /\ LET r == kmem_cache_alloc_locked([Heap EXCEPT !.mem = Acquire(mem, c, p)], c)
             IN /\ mem' = r.h.mem
                /\ kfl' = r.h.fl
                /\ panicked' = r.h.bad
                /\ arg' = [arg EXCEPT ![p] = [c |-> c, obj |-> r.obj]]
                /\ pc' = [pc EXCEPT ![p] = IF r.h.bad # "" THEN "stopped" ELSE "a_rel"]
                /\ peak' = IF r.h.bad = "" /\ r.obj # NULL /\ OutOf(c) >= peak[c]
                           THEN [peak EXCEPT ![c] = OutOf(c) + 1] ELSE peak
  /\ UNCHANGED <<caches, live, nlive, ctor_call_count, dtor_call_count,
                 alloc_ok_count, free_call_count, ncreate, last_create, wl, fvars, cache_table, ret>>

\* Mutant: the lock is still held when the ctor is called.
AllocRelease_KeepLock(p) ==
  /\ panicked = ""
  /\ pc[p] = "a_rel"
  /\ pc' = [pc EXCEPT ![p] = IF arg[p].obj = NULL THEN "a_fail" ELSE "a_ctor"]
  /\ UNCHANGED <<mem, kfl, panicked, arg, caches, live, nlive, ctor_call_count,
                 dtor_call_count, alloc_ok_count, free_call_count, ncreate, last_create, peak, wl, fvars, svars>>

\* Mutant: the failure path falls through to the ctor call.
AllocRelease_NoEarlyReturn(p) ==
  /\ panicked = ""
  /\ pc[p] = "a_rel"
  /\ mem' = Wr(mem, arg[p].c + C_lock, 0)
  /\ pc' = [pc EXCEPT ![p] = "a_ctor"]
  /\ UNCHANGED <<kfl, panicked, arg, caches, live, nlive, ctor_call_count,
                 dtor_call_count, alloc_ok_count, free_call_count, ncreate, last_create, peak, wl, fvars, svars>>

\* release(&cache->lock), on the failure path and on the normal one.
AllocRelease(p) ==
  /\ panicked = ""
  /\ pc[p] = "a_rel"
  /\ mem' = release(mem, arg[p].c)
  /\ pc' = [pc EXCEPT ![p] = IF arg[p].obj = NULL THEN "a_fail" ELSE "a_ctor"]
  /\ UNCHANGED <<kfl, panicked, arg, caches, live, nlive, ctor_call_count,
                 dtor_call_count, alloc_ok_count, free_call_count, ncreate, last_create, peak, wl, fvars, svars>>

\* test_ctor(obj): write the pattern (the count is kept by the action).
RunCtor(m, c, obj) == IF HasCtor(m, c) THEN Wr(m, obj, PAT_CTOR) ELSE m
\* The client writes into the object it has received (a ctor cache's client
\* leaves the word the ctor wrote).
ClientFill(m, c, obj) == IF HasCtor(m, c) THEN m ELSE Wr(m, obj, PAT_CLIENT)

\* Mutant: the object is returned as the dtor and the freelist left it.
AllocCtor_NotRun(p) ==
  /\ panicked = ""
  /\ pc[p] = "a_ctor"
  /\ ctor_call_count' =
       IF HasCtor(mem, arg[p].c) THEN ctor_call_count + 1 ELSE ctor_call_count
  /\ pc' = [pc EXCEPT ![p] = "a_ret"]
  /\ UNCHANGED <<mem, kfl, panicked, arg, caches, live, nlive, dtor_call_count,
                 alloc_ok_count, free_call_count, ncreate, last_create, peak, wl, fvars, svars>>

\* if (cache->ctor) cache->ctor(obj), after the lock has been released.  The
\* ctor counts, then stores through obj.
AllocCtor(p) ==
  /\ panicked = ""
  /\ pc[p] = "a_ctor"
  /\ ctor_call_count' =
       IF HasCtor(mem, arg[p].c) THEN ctor_call_count + 1 ELSE ctor_call_count
  /\ IF HasCtor(mem, arg[p].c) /\ ~Mapped(arg[p].obj)
     THEN /\ panicked' = "trap"
          /\ pc' = [pc EXCEPT ![p] = "stopped"]
          /\ mem' = mem
     ELSE /\ panicked' = panicked
          /\ pc' = [pc EXCEPT ![p] = "a_ret"]
          /\ mem' = RunCtor(mem, arg[p].c, arg[p].obj)
  /\ UNCHANGED <<kfl, arg, caches, live, nlive, dtor_call_count,
                 alloc_ok_count, free_call_count, ncreate, last_create, peak, wl, fvars, svars>>

\* return obj: the client takes the object and fills it.
AllocReturn(p) ==
  /\ panicked = ""
  /\ pc[p] = "a_ret"
  /\ LET c == arg[p].c
         obj == arg[p].obj
     IN /\ mem' = ClientFill(mem, c, obj)
        /\ alloc_ok_count' =
             IF HasCtor(mem, c) /\ obj # NULL THEN alloc_ok_count + 1 ELSE alloc_ok_count
        /\ sys' = Returned(p, obj)
        /\ live' = live \cup {[c |-> c, obj |-> obj]}
        /\ nlive' = nlive + 1
  /\ pc' = [pc EXCEPT ![p] = "idle"]
  /\ arg' = [arg EXCEPT ![p] = NoArg]
  /\ UNCHANGED <<kfl, panicked, caches, ctor_call_count, dtor_call_count,
                 free_call_count, ncreate, last_create, peak, wl, fvars, cache_table, ret>>

\* ---- kmem_cache_free
\* Mutant: only the cache is tested for null.
FreeCall_NoObjCheck(p, c, obj) ==
  /\ Running(p)
  /\ sys' = Called(p, NULL)
  /\ IF c = NULL
     THEN /\ pc' = [pc EXCEPT ![p] = "f_null"]
          /\ arg' = [arg EXCEPT ![p] = [c |-> c, obj |-> obj]]
          /\ UNCHANGED <<live, nlive, free_call_count>>
     ELSE /\ live' = live \ {[c |-> c, obj |-> obj]}
          /\ nlive' = nlive - 1
          /\ free_call_count' =
               IF HasDtor(mem, c) THEN free_call_count + 1 ELSE free_call_count
          /\ pc' = [pc EXCEPT ![p] = "f_dtor"]
          /\ arg' = [arg EXCEPT ![p] = [c |-> c, obj |-> obj]]
  /\ UNCHANGED <<mem, kfl, panicked, caches, ctor_call_count, dtor_call_count,
                 alloc_ok_count, ncreate, last_create, peak, wl, fvars, cache_table, ret>>

\* The call: with a null cache or a null object it returns at its first
\* line; otherwise the client has handed a live object back to its cache.
FreeCall(p, c, obj) ==
  /\ Running(p)
  /\ sys' = Called(p, NULL)
  /\ IF c = NULL \/ obj = NULL
     THEN /\ pc' = [pc EXCEPT ![p] = "f_null"]
          /\ arg' = [arg EXCEPT ![p] = [c |-> c, obj |-> obj]]
          /\ UNCHANGED <<live, nlive, free_call_count>>
     ELSE /\ live' = live \ {[c |-> c, obj |-> obj]}
          /\ nlive' = IF [c |-> c, obj |-> obj] \in live THEN nlive - 1 ELSE nlive
          /\ free_call_count' =
               IF HasDtor(mem, c) THEN free_call_count + 1 ELSE free_call_count
          /\ pc' = [pc EXCEPT ![p] = "f_dtor"]
          /\ arg' = [arg EXCEPT ![p] = [c |-> c, obj |-> obj]]
  /\ UNCHANGED <<mem, kfl, panicked, caches, ctor_call_count, dtor_call_count,
                 alloc_ok_count, ncreate, last_create, peak, wl, fvars, cache_table, ret>>

\* test_dtor(obj): clear the first word (the count is kept by the action).
RunDtor(m, c, obj) == IF HasDtor(m, c) THEN Wr(m, obj, 0) ELSE m

\* if (cache->dtor) cache->dtor(obj), before the lock is taken.  The dtor
\* counts, then reads and stores through obj.
FreeDtor(p) ==
  /\ panicked = ""
  /\ pc[p] = "f_dtor"
  /\ dtor_call_count' =
       IF HasDtor(mem, arg[p].c) THEN dtor_call_count + 1 ELSE dtor_call_count
  /\ IF HasDtor(mem, arg[p].c) /\ ~Mapped(arg[p].obj)
     THEN /\ panicked' = "trap"
          /\ pc' = [pc EXCEPT ![p] = "stopped"]
          /\ mem' = mem
     ELSE /\ panicked' = panicked
          /\ pc' = [pc EXCEPT ![p] = "f_acq"]
          /\ mem' = RunDtor(mem, arg[p].c, arg[p].obj)
  /\ UNCHANGED <<kfl, arg, caches, live, nlive, ctor_call_count,
                 alloc_ok_count, free_call_count, ncreate, last_create, peak, wl, fvars, svars>>

\* The acquire and the locked region: lookup, push and list move; on a
\* failed lookup the lock is released before the panic.
FreeLocked(p) ==
  /\ panicked = ""
  /\ pc[p] = "f_acq"
  /\ LockFree(mem, arg[p].c)
  /\ LET h == kmem_cache_free_locked([Heap EXCEPT !.mem = Acquire(mem, arg[p].c, p)],
                                     arg[p].c, arg[p].obj)
     IN /\ mem' = IF h.bad = "panic" THEN release(h.mem, arg[p].c) ELSE h.mem
        /\ kfl' = h.fl
        /\ panicked' = h.bad
        /\ pc' = [pc EXCEPT ![p] = IF h.bad # "" THEN "stopped" ELSE "f_rel"]
  /\ UNCHANGED <<arg, caches, live, nlive, ctor_call_count, dtor_call_count,
                 alloc_ok_count, free_call_count, ncreate, last_create, peak, wl, fvars, svars>>

FreeRelease(p) ==
  /\ panicked = ""
  /\ pc[p] = "f_rel"
  /\ mem' = release(mem, arg[p].c)
  /\ pc' = [pc EXCEPT ![p] = "idle"]
  /\ arg' = [arg EXCEPT ![p] = NoArg]
  /\ UNCHANGED <<kfl, panicked, caches, live, nlive, ctor_call_count,
                 dtor_call_count, alloc_ok_count, free_call_count, ncreate, last_create, peak, wl, fvars, svars>>

\* ---- kmem_cache_destroy
\* The call: with a null cache it returns at its first line.  Otherwise the
\* client destroys a cache no CPU is using, and the objects it still holds
\* from that cache are given up with it.
DestroyCall(p, c) ==
  /\ Running(p)
  /\ sys' = Called(p, NULL)
  /\ IF c = NULL
     THEN /\ pc' = [pc EXCEPT ![p] = "d_null"]
          /\ UNCHANGED <<arg, caches, live, nlive, peak>>
     ELSE /\ InCall(c) = {}
          /\ caches' = caches \ {c}
          /\ live' = {l \in live : l.c # c}
          /\ nlive' = nlive - Cardinality({l \in live : l.c = c})
          /\ pc' = [pc EXCEPT ![p] = "d_acq"]
          /\ arg' = [arg EXCEPT ![p] = [c |-> c, obj |-> NULL]]
          /\ peak' = [peak EXCEPT ![c] = 0]
  /\ UNCHANGED <<mem, kfl, panicked, ctor_call_count, dtor_call_count,
                 alloc_ok_count, free_call_count, ncreate, last_create, wl, fvars, cache_table, ret>>

\* The acquire and the three drain loops.
DestroyLocked(p) ==
  /\ panicked = ""
  /\ pc[p] = "d_acq"
  /\ LockFree(mem, arg[p].c)
  /\ LET h == kmem_cache_destroy_locked([Heap EXCEPT !.mem = Acquire(mem, arg[p].c, p)], arg[p].c)
     IN /\ mem' = h.mem
        /\ kfl' = h.fl
        /\ panicked' = h.bad
        /\ pc' = [pc EXCEPT ![p] = IF h.bad # "" THEN "stopped" ELSE "d_rel"]
  /\ UNCHANGED <<arg, caches, live, nlive, ctor_call_count, dtor_call_count,
                 alloc_ok_count, free_call_count, ncreate, last_create, peak, wl, fvars, svars>>

\* release(&cache->lock); kfree(cache).
DestroyRelease(p) ==
  /\ panicked = ""
  /\ pc[p] = "d_rel"
  /\ LET h == kfree([Heap EXCEPT !.mem = release(mem, arg[p].c)], arg[p].c)
     IN /\ mem' = h.mem
        /\ kfl' = h.fl
        /\ panicked' = h.bad
        /\ pc' = [pc EXCEPT ![p] = IF h.bad # "" THEN "stopped" ELSE "idle"]
  /\ arg' = [arg EXCEPT ![p] = NoArg]
  /\ UNCHANGED <<caches, live, nlive, ctor_call_count, dtor_call_count,
                 alloc_ok_count, free_call_count, ncreate, last_create, peak, wl, fvars, svars>>

\* The arguments the clients pass: caches they have created and objects
\* they hold, and null where the workload says so.
NullArgs == IF wl.nulls THEN {NULL} ELSE {}
CacheArgs == caches \cup NullArgs
\* No client holds, and no freelist of cache c links, an address that is not
\* an object slot: the contract has not been broken on c so far.
Unbroken(c) ==
  LET osz == objsize_of(mem, c)
      slot(a) == Off(a) % osz = 0 /\ Off(a) + osz <= PGSIZE
  IN /\ \A l \in live : l.c = c => slot(l.obj)
     /\ \A f \in Frames : (S_cache \in DOMAIN mem[f].w /\ mem[f].w[S_cache] = c) =>
          \A a \in Range(LinkChain(mem, Rd(mem, f + S_freelist), PGSIZE \div MIN_OBJ_SIZE)) :
            slot(a)

\* What a client that breaks the contract passes to kmem_cache_free: an
\* object of another cache (held, or the slot after it), or, once, an address
\* inside one of its own objects or the space left over at the end of a slab.
MisuseArgs ==
  LET good == {l \in live : l.c \in caches /\ objsize_of(mem, l.c) > 0
                            /\ Off(l.obj) % objsize_of(mem, l.c) = 0}
      foreign == {x \in good \X caches : x[1].c # x[2]}
      tail(l) == PageOf(l.obj) + PerSlab(objsize_of(mem, l.c)) * objsize_of(mem, l.c)
  IN IF wl.misuse = "foreign"
     THEN {<<x[2], x[1].obj>> : x \in foreign}
            \cup {<<x[2], x[1].obj + objsize_of(mem, x[1].c)>> :
                    x \in {y \in foreign : Off(y[1].obj) + objsize_of(mem, y[1].c) < PGSIZE}}
     ELSE IF wl.misuse = "inside"
     THEN {<<l.c, l.obj + 8>> : l \in {y \in good : Unbroken(y.c)}}
            \cup {<<l.c, tail(l)>> :
                    l \in {y \in good : Unbroken(y.c) /\ tail(y) < PageOf(y.obj) + PGSIZE}}
     ELSE {}
FreeArgs ==
  {<<l.c, l.obj>> : l \in live}
    \cup {<<NULL, l.obj>> : l \in {x \in live : wl.nulls}}
    \cup {<<c, NULL>> : c \in {x \in CacheArgs : wl.nulls}}
    \cup MisuseArgs

Next ==
  \E p \in CPUs :
    \/ \E cfg \in wl.cfgs : Create(p, cfg)
    \/ Return(p)
    \/ \E c \in CacheArgs : AllocLocked(p, c)
    \/ AllocRelease(p)
    \/ AllocCtor(p)
    \/ AllocReturn(p)
    \/ \E a \in FreeArgs : FreeCall(p, a[1], a[2])
    \/ FreeDtor(p)
    \/ FreeLocked(p)
    \/ FreeRelease(p)
    \/ \E c \in CacheArgs : DestroyCall(p, c)
    \/ DestroyLocked(p)
    \/ DestroyRelease(p)

Spec == Init /\ [][Next]_vars

\* Caches with test_ctor and test_dtor: shared by the CPUs, and next to a
\* cache without callbacks.
CtorWorkloads ==
  {Workload(CPUs, 1, 1, {Cfg(2048, 0, TRUE)}, FALSE),
   Workload({1}, MaxCaches, MaxCreates, {Cfg(2048, 0, TRUE), Cfg(2048, 0, FALSE)}, FALSE)}
InitCtor == InitCommon /\ wl \in CtorWorkloads
SpecCtor == InitCtor /\ [][Next]_vars

\* The alignments of slab_test_single_alignment (size 100), the default, and
\* alignments that leave two objects and one object per slab.
AlignWorkloads == {Workload({1}, 1, 1, {cfg}, FALSE) : cfg \in AlignConfigs}
InitAlign == InitCommon /\ wl \in AlignWorkloads
SpecAlign == InitAlign /\ [][Next]_vars

\* Clients that also pass null caches and null objects.
NullWorkloads ==
  {Workload(CPUs, 1, 1, {Cfg(2048, 0, TRUE)}, TRUE),
   Workload({1}, 1, 1, {Cfg(3072, 0, FALSE)}, TRUE)}
InitNull == InitCommon /\ wl \in NullWorkloads
SpecNull == InitNull /\ [][Next]_vars
\* ------------------------------------------------------------- observers
SlabList(m, c, off) == LinkChain(m, Rd(m, c + off), NFrames + 1)
ListedSlabs(m, c) ==
  Range(SlabList(m, c, C_partial)) \cup Range(SlabList(m, c, C_full))
    \cup Range(SlabList(m, c, C_empty))
\* The slab headers cache c has created and not destroyed: the frames whose
\* cache field names c (kfree wipes the field).
CreatedSlabs(m, c) ==
  {f \in Frames : S_cache \in DOMAIN m[f].w /\ m[f].w[S_cache] = c}
nr_free(m, s) == Rd4(m, s + S_nr_free)
nr_objs(m, s) == Rd4(m, s + S_nr_objs)
slab_mem(m, s) == Rd(m, s + S_mem)
Freelist(m, s) == LinkChain(m, Rd(m, s + S_freelist), PGSIZE \div MIN_OBJ_SIZE)
Quiet(c) == LockFree(mem, c)
\* Objects that alloc has popped and not yet returned.
Popped == {[c |-> arg[p].c, obj |-> arg[p].obj] :
             p \in {q \in CPUs : pc[q] \in AllocPcs /\ arg[q].obj # NULL}}
Held == live \cup Popped

\* ------------------------------------------------------------------ claims

\* C1: under any interleaving of alloc and free on a shared cache, the live
\* addresses are exactly allocations minus frees, without duplicates, and an
\* alloc in progress never holds an address that is live or that another
\* alloc in progress holds.
C1_LiveUnique ==
  /\ Cardinality({l.obj : l \in live}) = nlive
  /\ \A p \in CPUs : pc[p] \in AllocPcs /\ arg[p].obj # NULL =>
       /\ arg[p].obj \notin {l.obj : l \in live}
       /\ \A q \in CPUs \ {p} : pc[q] \in AllocPcs => arg[q].obj # arg[p].obj
C1_Witness ==
  /\ nlive >= 1
  /\ pc[1] = "a_ret" /\ pc[2] = "a_ret" /\ arg[1].c = arg[2].c
  /\ PageOf(arg[1].obj) = PageOf(arg[2].obj)
  /\ \E l \in live : PageOf(l.obj) = PageOf(arg[1].obj)

\* C2: whenever no CPU is inside a cache's critical section, empty slabs have
\* nr_free = nr_objs, full slabs nr_free = 0, partial slabs 0 < nr_free <
\* nr_objs, for every cache kmem_cache_create accepts.
C2_Classification ==
  \A c \in caches : Quiet(c) =>
    /\ \A s \in Range(SlabList(mem, c, C_empty)) : nr_free(mem, s) = nr_objs(mem, s)
    /\ \A s \in Range(SlabList(mem, c, C_full)) : nr_free(mem, s) = 0
    /\ \A s \in Range(SlabList(mem, c, C_partial)) :
         0 < nr_free(mem, s) /\ nr_free(mem, s) < nr_objs(mem, s)

\* C3: after every alloc or free returns, each slab the cache has created is
\* linked into exactly one of empty, partial, full, exactly once, and each list
\* is a finite null-terminated chain.
C3_OneListEach ==
  \A c \in caches : Quiet(c) =>
    LET lp == SlabList(mem, c, C_partial)
        lf == SlabList(mem, c, C_full)
        le == SlabList(mem, c, C_empty)
        all == lp \o lf \o le
    IN /\ LinkEnds(mem, Rd(mem, c + C_partial), NFrames)
       /\ LinkEnds(mem, Rd(mem, c + C_full), NFrames)
       /\ LinkEnds(mem, Rd(mem, c + C_empty), NFrames)
       /\ Distinct(all)
       /\ Range(all) = CreatedSlabs(mem, c)

\* C4: for clients that free only live objects, each slab's freelist visits
\* exactly nr_free distinct addresses mem + i * objsize with 0 <= i < nr_objs
\* and ends at null; nr_objs keeps the value slab_create gave it and
\* 0 <= nr_free <= nr_objs.
C4_FreelistIntegrity ==
  \A c \in caches : Quiet(c) =>
    \A s \in CreatedSlabs(mem, c) \cup ListedSlabs(mem, c) :
      LET fl == Freelist(mem, s)
          osz == objsize_of(mem, c)
      IN /\ nr_objs(mem, s) = PGSIZE \div osz
         /\ 0 <= nr_free(mem, s) /\ nr_free(mem, s) <= nr_objs(mem, s)
         /\ Len(fl) = nr_free(mem, s)
         /\ LinkEnds(mem, Rd(mem, s + S_freelist), nr_objs(mem, s))
         /\ Distinct(fl)
         /\ \A a \in Range(fl) :
              \E i \in 0..(nr_objs(mem, s) - 1) : a = slab_mem(mem, s) + i * osz
C4_Witness ==
  \E c \in caches : Quiet(c) /\ \E s \in ListedSlabs(mem, c) :
    LET fl == Freelist(mem, s)
    IN Len(fl) >= 2 /\ fl[1] > fl[2] /\ nr_free(mem, s) < nr_objs(mem, s)

\* C5: every non-null address kmem_cache_alloc(C) returns lies in the object
\* area of exactly one slab C owns, at a multiple of objsize from its start,
\* with the whole object inside the slab's frame.
C5_Containment ==
  \A p \in CPUs : pc[p] = "a_ret" /\ arg[p].obj # NULL =>
    LET c == arg[p].c
        obj == arg[p].obj
        osz == objsize_of(mem, c)
        owners == {s \in ListedSlabs(mem, c) :
                     slab_mem(mem, s) <= obj /\ obj < slab_mem(mem, s) + PGSIZE}
    IN /\ Cardinality(owners) = 1
       /\ \A s \in owners :
            /\ (obj - slab_mem(mem, s)) % osz = 0
            /\ obj + osz <= slab_mem(mem, s) + PGSIZE
C5_Witness ==
  \E p \in CPUs : pc[p] = "a_ret" /\ arg[p].obj # NULL
    /\ Off(arg[p].obj) # 0
    /\ Cardinality(ListedSlabs(mem, arg[p].c)) >= 2

\* C7: with several caches in use, no object of one cache has the address of,
\* or overlaps, a held object of another cache, and no frame is a slab of two
\* caches, or a slab and a cache descriptor, at the same time.
SlabFrames(m, c) == ListedSlabs(m, c) \cup {slab_mem(m, s) : s \in ListedSlabs(m, c)}
Extent(m, l) == [lo |-> l.obj, hi |-> l.obj + objsize_of(m, l.c)]
C7_NoCrossTalk ==
  /\ \A l1, l2 \in Held : l1.c # l2.c =>
       \/ Extent(mem, l1).hi <= Extent(mem, l2).lo
       \/ Extent(mem, l2).hi <= Extent(mem, l1).lo
  /\ \A c1, c2 \in caches : c1 # c2 =>
       (SlabFrames(mem, c1) \cup {c1}) \cap (SlabFrames(mem, c2) \cup {c2}) = {}
  /\ \A c1, c2 \in caches : c1 \notin SlabFrames(mem, c2)
C7_Witness ==
  /\ ncreate = MaxCreates
  /\ \E l1, l2 \in live : l1.c # l2.c /\ l1.c \in caches /\ l2.c \in caches
  /\ \E p \in CPUs : pc[p] = "a_ret" /\ arg[p].obj # NULL

\* C8: alloc and free never change the contents of an object that is live
\* and is not the object being allocated or freed.
ObjImage(m, l) ==
  LET f == PageOf(l.obj)
      lo == Off(l.obj)
      hi == lo + objsize_of(m, l.c)
  IN [fill |-> m[f].fill,
      w |-> [o \in {x \in DOMAIN m[f].w : lo <= x /\ x < hi} |-> m[f].w[o]]]
C8_LiveUntouched ==
  [][\A l \in live \cap live' : ObjImage(mem', l) = ObjImage(mem, l)]_vars
C8_Witness ==
  \E p \in CPUs : pc[p] = "f_rel" /\
    \E l \in live : l.c = arg[p].c /\ PageOf(l.obj) = PageOf(arg[p].obj)
                    /\ Rd(mem, l.obj) = PAT_CLIENT
\* C6: for a cache created with a power-of-two align every address alloc
\* returns is a multiple of align; with align = 0 it is a multiple of the
\* pointer size.
PointerSize == 8
C6_Alignment ==
  \A p \in CPUs : pc[p] = "a_ret" /\ arg[p].obj # NULL =>
    LET al == Rd4(mem, arg[p].c + C_align)
    IN arg[p].obj % (IF al = 0 THEN PointerSize ELSE al) = 0
C6_Witness ==
  \E p \in CPUs : pc[p] = "a_ret" /\ Off(arg[p].obj) # 0
    /\ Rd4(mem, arg[p].c + C_align) = 128 /\ nlive >= 2

\* C9: for a cache with ctor and dtor, ctor calls equal the allocs that
\* returned an object and dtor calls equal the frees called with cache and
\* object, and each callback has run on the very object of its call.
C9_CtorDtorCounts ==
  /\ ctor_call_count =
       alloc_ok_count + Cardinality({p \in CPUs : pc[p] = "a_ret" /\ HasCtor(mem, arg[p].c)})
  /\ dtor_call_count =
       free_call_count - Cardinality({p \in CPUs : pc[p] = "f_dtor" /\ HasDtor(mem, arg[p].c)})
  /\ \A p \in CPUs : pc[p] = "a_ret" /\ HasCtor(mem, arg[p].c) =>
       Rd(mem, arg[p].obj) = PAT_CTOR
  /\ \A p \in CPUs : pc[p] = "f_acq" /\ HasDtor(mem, arg[p].c) =>
       Rd(mem, arg[p].obj) = 0
C9_Witness ==
  /\ ctor_call_count >= 2 /\ dtor_call_count >= 1
  /\ \E p \in CPUs : pc[p] = "a_fail"

\* C10: free(cache, null), free(null, obj), destroy(null) and alloc(null)
\* return at once (alloc with null), change no cache, slab, freelist, lock or
\* frame-allocator list, and call no ctor or dtor.
NullPcs == {"a_null", "f_null", "d_null"}
FreePcs == {"f_null", "f_dtor", "f_acq", "f_rel"}
C10_NullCallsNoEffect ==
  [][\A p \in CPUs :
       (/\ pc[p] = "idle" /\ pc'[p] \notin {"idle", "c_null"}
        /\ \/ arg'[p].c = NULL
           \/ pc'[p] \in FreePcs /\ arg'[p].obj = NULL)
       => /\ pc'[p] \in NullPcs
          /\ mem' = mem /\ kfl' = kfl /\ caches' = caches /\ live' = live
          /\ ctor_call_count' = ctor_call_count
          /\ dtor_call_count' = dtor_call_count
          /\ panicked' = panicked]_vars
C10_Witness ==
  /\ pc[1] = "f_null" /\ arg[1].c # NULL /\ arg[1].obj = NULL
  /\ pc[2] \in {"a_null", "d_null"}
  /\ nlive >= 1

\* ------------------------------------------------ kmem_cache_create arguments
\* The calls of slab_test_single_error_handling (null name, size 0, size
\* PGSIZE + 1), sizes below and at MIN_OBJ_SIZE, a size that does not divide
\* PGSIZE, a whole page, and a size whose rounding wraps in 32 bits
\* (0xffffffff).
CreateConfigs ==
  {CfgNoName(64, 0, FALSE), Cfg(0, 0, FALSE), Cfg(1, 0, FALSE), Cfg(7, 0, FALSE),
   Cfg(7, 8, FALSE), Cfg(8, 0, FALSE), Cfg(80, 0, FALSE), Cfg(80, 16, FALSE),
   Cfg(PGSIZE, 0, FALSE), Cfg(PGSIZE + 1, 0, FALSE), Cfg(-1, 0, FALSE)}
CreateWorkloads == {Workload({1}, 1, MaxCreates, {cfg}, FALSE) : cfg \in CreateConfigs}
InitCreate == InitCommon /\ wl \in CreateWorkloads
SpecCreate == InitCreate /\ [][Next]_vars

\* The frames on kmem.freelist.
FreeFrames(m, fl) == Range(LinkChain(m, fl, NFrames + 1))
SlabHeaderSize == S_freelist + PointerSize

\* C11: kmem_cache_create with a null name or with size 0 returns null and
\* takes no frame: the frame allocator's list and the memory are as before.
C11_CreateRejects ==
  [][(ncreate' # ncreate
        /\ (last_create'.cfg.name = NULL \/ last_create'.cfg.size = 0))
       => /\ last_create'.r = NULL
          /\ \E p \in CPUs : pc[p] = "idle" /\ pc'[p] = "c_null"
          /\ caches' = caches
          /\ kfl' = kfl /\ mem' = mem
          /\ FreeFrames(mem', kfl') = FreeFrames(mem, kfl)]_vars
C11_Witness ==
  /\ ncreate = MaxCreates
  /\ last_create.cfg.name = NULL /\ last_create.cfg.size # 0
  /\ \E p \in CPUs : pc[p] = "c_null"

\* C12: every cache kmem_cache_create returns has 8 <= objsize <= PGSIZE, so
\* that each of its slabs holds at least one object (a size that does not fit
\* after alignment, or whose rounding wraps, is refused).
C12_ObjsizeFits ==
  \A c \in caches :
    /\ ~Gt32(MIN_OBJ_SIZE, objsize_of(mem, c))
    /\ ~Gt32(objsize_of(mem, c), PGSIZE)

\* C13: kmem_cache_create with a name and a size of 1 to 7 bytes succeeds,
\* and the cache's object size is at least the pointer size.
C13_SmallSizeRaised ==
  (last_create.cfg.name # NULL /\ last_create.cfg.size \in 1..(PointerSize - 1))
    => /\ last_create.r # NULL
       /\ last_create.r \in caches => objsize_of(mem, last_create.r) >= PointerSize

\* C14: with align = 0 the requested size is not rounded: objsize is the
\* size asked for and a slab holds floor((PGSIZE - header) / size) objects.
C14_NoRoundingAlignZero ==
  \A c \in caches :
    (c = last_create.r /\ last_create.cfg.align = 0) =>
      /\ objsize_of(mem, c) = last_create.cfg.size
      /\ \A s \in ListedSlabs(mem, c) :
           nr_objs(mem, s) = IF last_create.cfg.size > 0
                             THEN (PGSIZE - SlabHeaderSize) \div last_create.cfg.size
                             ELSE 0

\* ------------------------------------------------- frees outside the contract
Misuse(w, how) == [w EXCEPT !.misuse = how]
MisuseWorkloads ==
  {Misuse(Workload({1}, MaxCaches, MaxCreates, {Cfg(1200, 0, FALSE)}, FALSE), "foreign"),
   Misuse(Workload({1}, MaxCaches, MaxCreates, {Cfg(3072, 0, FALSE)}, FALSE), "foreign"),
   Misuse(Workload({1}, MaxCaches, MaxCreates,
                   {Cfg(2048, 0, TRUE), Cfg(2048, 0, FALSE)}, FALSE), "foreign"),
   Misuse(Workload({1}, 1, 1, {Cfg(1200, 0, FALSE)}, FALSE), "inside"),
   Misuse(Workload({1}, 1, 1, {Cfg(2048, 0, TRUE)}, FALSE), "inside")}
InitMisuse == InitCommon /\ wl \in MisuseWorkloads
SpecMisuse == InitMisuse /\ [][Next]_vars

\* The slabs of cache c whose frame holds address a.
SlabsHolding(m, c, a) ==
  {s \in ListedSlabs(m, c) : slab_mem(m, s) <= a /\ a < slab_mem(m, s) + PGSIZE}
\* The lists of every cache and the counters and freelist of every slab.
SlabState(m) ==
  [c \in caches |->
     [partial |-> SlabList(m, c, C_partial), full |-> SlabList(m, c, C_full),
      empty |-> SlabList(m, c, C_empty),
      slabs |-> [s \in ListedSlabs(m, c) |->
                   <<nr_free(m, s), nr_objs(m, s), Freelist(m, s)>>]]]

\* C15: kmem_cache_free(C, p) with p outside every slab of C panics; from the
\* call to the panic no list, freelist or nr_free of any cache changes, and
\* the lock of C is not held at the panic.
C15_ForeignFreePanics ==
  [][\A p \in CPUs :
       (/\ pc[p] \in {"f_dtor", "f_acq"} /\ pc'[p] # pc[p]
        /\ arg[p].c \in caches
        /\ SlabsHolding(mem, arg[p].c, arg[p].obj) = {})
       => /\ SlabState(mem') = SlabState(mem)
          /\ pc[p] = "f_acq" => (panicked' = "panic" /\ LockFree(mem', arg[p].c))]_vars

\* C16: kmem_cache_free(C, p) with p inside the frame of a slab of C, but not
\* at a multiple of objsize from its start or with p + objsize past the end
\* of the frame, is fatal, and p is not pushed onto the freelist.
C16_MisalignedFreeFatal ==
  [][\A p \in CPUs :
       (/\ pc[p] = "f_acq" /\ pc'[p] # "f_acq"
        /\ arg[p].c \in caches
        /\ \E s \in SlabsHolding(mem, arg[p].c, arg[p].obj) :
             \/ (arg[p].obj - slab_mem(mem, s)) % objsize_of(mem, arg[p].c) # 0
             \/ arg[p].obj + objsize_of(mem, arg[p].c) > slab_mem(mem, s) + PGSIZE)
       => /\ panicked' # ""
          /\ \A s \in ListedSlabs(mem', arg[p].c) :
               arg[p].obj \notin Range(Freelist(mem', s))]_vars

\* ------------------------------------------------------- frames and slabs
\* A step in which CPU p runs kmem_cache_alloc(c) from the call to the end of
\* its locked region.
AllocStep(p, c) ==
  pc[p] = "idle" /\ pc'[p] \in {"a_rel", "stopped"} /\ c # NULL /\ arg'[p].c = c
NoUsableSlab(m, c) == Rd(m, c + C_partial) = NULL /\ Rd(m, c + C_empty) = NULL
\* Frames that are neither free nor a cache descriptor.
TakenForSlabs ==
  Frames \ (FreeFrames(mem, kfl) \cup caches
              \cup {arg[p].c : p \in {q \in CPUs : pc[q] \in {"d_acq", "d_rel"}}})
Ceil(a, b) == (a + b - 1) \div b

\* C17: when a new slab is needed and the frame allocator has fewer frames
\* than it takes, kmem_cache_alloc returns null without panicking, the slab
\* lists are unchanged, the free frames are those free before the call and the
\* lock is free at the return; with enough free frames the alloc succeeds.
C17_AllocFailureClean ==
  [][\A p \in CPUs :
       /\ \A c \in caches :
            (AllocStep(p, c) /\ NoUsableSlab(mem, c)
               /\ ~Gt32(objsize_of(mem, c), PGSIZE) /\ objsize_of(mem, c) # 0)
            => IF Cardinality(FreeFrames(mem, kfl)) < 2
               THEN /\ pc'[p] = "a_rel" /\ arg'[p].obj = NULL /\ panicked' = ""
                    /\ SlabState(mem') = SlabState(mem)
                    /\ FreeFrames(mem', kfl') = FreeFrames(mem, kfl)
               ELSE pc'[p] = "a_rel" /\ arg'[p].obj # NULL
       /\ (pc[p] = "a_rel" /\ pc'[p] = "a_fail")
            => /\ LockFree(mem', arg[p].c) /\ panicked' = ""
               /\ SlabState(mem') = SlabState(mem)
               /\ FreeFrames(mem', kfl') = FreeFrames(mem, kfl)]_vars
C17_Witness ==
  /\ \E p \in CPUs : pc[p] = "a_fail" /\ LockFree(mem, arg[p].c)
                      /\ ListedSlabs(mem, arg[p].c) # {}
  /\ Cardinality(FreeFrames(mem, kfl)) = 1

\* C18: after kmem_cache_destroy, also with objects still live, every frame
\* the cache took (descriptor and slab frames) is free again, exactly once:
\* with no cache left all frames are free.
C18_DestroyReturnsFrames ==
  [][\A p \in CPUs :
       (pc[p] \in {"d_acq", "d_rel"} /\ pc'[p] # pc[p])
       => /\ panicked' = ""
          /\ (pc[p] = "d_rel" /\ caches' = {} /\ \A q \in CPUs \ {p} : pc[q] = "idle")
               => /\ FreeFrames(mem', kfl') = Frames
                  /\ LinkEnds(mem', kfl', NFrames)]_vars

\* C19: each slab costs exactly one frame: the frames taken for slabs are as
\* many as the slabs.
SlabCount == Cardinality(UNION {ListedSlabs(mem, c) : c \in caches})
C19_OneFramePerSlab ==
  (panicked = "" /\ \A p \in CPUs : pc[p] = "idle")
    => Cardinality(TakenForSlabs) = SlabCount

\* C20: a cache creates a slab only when all its slabs are full, so it has
\* ceil(P / nr_objs) slabs, P being the most objects out of it at one time;
\* an alloc on a cache with a slab and no object out returns an object, so
\* repeating (alloc, free) leaves one slab.
C20_SlabsFollowPeak ==
  [][\A c \in caches' :
       LET n == PerSlab(objsize_of(mem', c))
       IN /\ panicked' = "" =>
               Cardinality(ListedSlabs(mem', c)) = Ceil(peak'[c], n)
          /\ (c \in caches
                /\ Cardinality(ListedSlabs(mem', c)) > Cardinality(ListedSlabs(mem, c)))
               => \A s \in ListedSlabs(mem, c) : nr_free(mem, s) = 0
          /\ \A p \in CPUs :
               (AllocStep(p, c) /\ OutOf(c) = 0 /\ ListedSlabs(mem, c) # {})
               => /\ pc'[p] = "a_rel" /\ arg'[p].obj # NULL
                  /\ ListedSlabs(mem', c) = ListedSlabs(mem, c)]_vars
C20_Witness ==
  \E c \in caches :
    /\ Cardinality(ListedSlabs(mem, c)) = 2 /\ OutOf(c) = 0
    /\ Rd(mem, c + C_empty) # NULL /\ Rd(mem, c + C_partial) = NULL
    /\ peak[c] = 2 * PerSlab(objsize_of(mem, c))

\* ------------------------------------------------------------ order of frees
\* C21: whenever every object allocated from a cache has been freed, in
\* whatever order, all slabs of the cache are on the empty list and its
\* partial and full lists are empty.
C21_AllFreedAllEmpty ==
  \A c \in caches :
    (panicked = "" /\ InCall(c) = {} /\ OutOf(c) = 0) =>
      /\ Rd(mem, c + C_partial) = NULL
      /\ Rd(mem, c + C_full) = NULL
      /\ CreatedSlabs(mem, c) = Range(SlabList(mem, c, C_empty))

\* ------------------------------------- direct callers of the frame allocator
\* The slab engine's client state, which the frame allocator does not touch.
cvars == <<caches, live, nlive, ctor_call_count, dtor_call_count, alloc_ok_count,
           free_call_count, ncreate, last_create, peak, wl>>

\* A workload of direct callers: the CPUs, the size classes they use ("4k",
\* "2m"), how they break the contract of kfree and superfree, if they do, and
\* how many frames they hold at a time.
FrameWorkload(cpus, sizes, how, hold) ==
  [cpus |-> cpus, ncaches |-> 0, ncreates |-> 0, cfgs |-> {}, nulls |-> FALSE,
   misuse |-> how, sizes |-> sizes, hold |-> hold]
NoLimit == NFrames + NSUPERPAGES + NCPU
\* Frames held or being allocated.
Taking == Cardinality(held) + Cardinality({q \in CPUs : pc[q] \in {"ka_pop", "ka_fill", "sa_pop", "sa_fill"}})

Holding(a, sz) == [pa |-> a, sz |-> sz]
InMem(a) == a > 0 /\ PageOf(a) \in DOMAIN mem
FrameArg(pa) == [c |-> NULL, obj |-> pa]

\* ---- kalloc
\* acquire(&kmem.lock)
KallocAcquire(p) ==
  /\ Running(p) /\ "4k" \in wl.sizes
  /\ Taking < wl.hold
  /\ klock = 0
  /\ klock' = p
  /\ pc' = [pc EXCEPT ![p] = "ka_pop"]
  /\ UNCHANGED <<mem, kfl, panicked, arg, slock, sfl, held, nfrees, cvars, svars>>

\* Mutant: the head is handed out and stays on the list.
KallocPop_NoUnlink(p) ==
  /\ panicked = "" /\ pc[p] = "ka_pop"
  /\ klock' = 0
  /\ arg' = [arg EXCEPT ![p] = FrameArg(kfl)]
  /\ pc' = [pc EXCEPT ![p] = "ka_fill"]
  /\ UNCHANGED <<mem, kfl, panicked, slock, sfl, held, nfrees, cvars, svars>>

\* r = kmem.freelist; if (r) kmem.freelist = r->next; release(&kmem.lock)
KallocPop(p) ==
  /\ panicked = "" /\ pc[p] = "ka_pop"
  /\ IF kfl # NULL /\ ~InMem(kfl)
     THEN /\ panicked' = "trap"
          /\ pc' = [pc EXCEPT ![p] = "stopped"]
          /\ UNCHANGED <<kfl, klock, arg>>
     ELSE /\ kfl' = IF kfl # NULL THEN Rd(mem, kfl) ELSE kfl
          /\ klock' = 0
          /\ arg' = [arg EXCEPT ![p] = FrameArg(kfl)]
          /\ pc' = [pc EXCEPT ![p] = "ka_fill"]
          /\ panicked' = panicked
  /\ UNCHANGED <<mem, slock, sfl, held, nfrees, cvars, svars>>

\* if (r) memset(r, 5, PGSIZE); return r
KallocFill(p) ==
  /\ panicked = "" /\ pc[p] = "ka_fill"
  /\ IF arg[p].obj # NULL
     THEN /\ mem' = Memset(mem, arg[p].obj, 5)
          /\ held' = held \cup {Holding(arg[p].obj, PGSIZE)}
     ELSE UNCHANGED <<mem, held>>
  /\ pc' = [pc EXCEPT ![p] = "idle"]
  /\ arg' = [arg EXCEPT ![p] = NoArg]
  /\ UNCHANGED <<kfl, panicked, klock, slock, sfl, nfrees, cvars, svars>>

\* ---- kfree
\* Mutant: the alignment of pa is not tested.
KfreeCall_NoAlignCheck(p, pa) ==
  /\ Running(p) /\ "4k" \in wl.sizes
  /\ nfrees < MaxFrees
  /\ nfrees' = nfrees + 1
  /\ arg' = [arg EXCEPT ![p] = FrameArg(pa)]
  /\ IF pa < KernelEnd \/ pa >= PHYSTOP
     THEN /\ panicked' = "panic"
          /\ pc' = [pc EXCEPT ![p] = "stopped"]
          /\ UNCHANGED <<mem, held>>
     ELSE /\ mem' = Memset(mem, PageOf(pa), 1)
          /\ held' = held \ {Holding(pa, PGSIZE)}
          /\ pc' = [pc EXCEPT ![p] = "kf_acq"]
          /\ panicked' = panicked
  /\ UNCHANGED <<kfl, klock, slock, sfl, cvars, svars>>

\* Mutant: the frame is linked as its caller left it.
KfreeCall_NoPoison(p, pa) ==
  /\ Running(p) /\ "4k" \in wl.sizes
  /\ nfrees < MaxFrees
  /\ nfrees' = nfrees + 1
  /\ arg' = [arg EXCEPT ![p] = FrameArg(pa)]
  /\ IF pa % PGSIZE # 0 \/ pa < KernelEnd \/ pa >= PHYSTOP
     THEN /\ panicked' = "panic"
          /\ pc' = [pc EXCEPT ![p] = "stopped"]
          /\ UNCHANGED <<mem, held>>
     ELSE /\ mem' = mem
          /\ held' = held \ {Holding(pa, PGSIZE)}
          /\ pc' = [pc EXCEPT ![p] = "kf_acq"]
          /\ panicked' = panicked
  /\ UNCHANGED <<kfl, klock, slock, sfl, cvars, svars>>

\* The test of pa, which panics, and memset(pa, 1, PGSIZE).
KfreeCall(p, pa) ==
  /\ Running(p) /\ "4k" \in wl.sizes
  /\ nfrees < MaxFrees
  /\ nfrees' = nfrees + 1
  /\ arg' = [arg EXCEPT ![p] = FrameArg(pa)]
  /\ IF pa % PGSIZE # 0 \/ pa < KernelEnd \/ pa >= PHYSTOP
     THEN /\ panicked' = "panic"
          /\ pc' = [pc EXCEPT ![p] = "stopped"]
          /\ UNCHANGED <<mem, held>>
     ELSE /\ mem' = Memset(mem, pa, 1)
          /\ held' = held \ {Holding(pa, PGSIZE)}
          /\ pc' = [pc EXCEPT ![p] = "kf_acq"]
          /\ panicked' = panicked
  /\ UNCHANGED <<kfl, klock, slock, sfl, cvars, svars>>

\* acquire(&kmem.lock)
KfreeAcquire(p) ==
  /\ panicked = "" /\ pc[p] = "kf_acq"
  /\ klock = 0
  /\ klock' = p
  /\ pc' = [pc EXCEPT ![p] = "kf_push"]
  /\ UNCHANGED <<mem, kfl, panicked, arg, slock, sfl, held, nfrees, cvars, svars>>

\* r->next = kmem.freelist; kmem.freelist = r; release(&kmem.lock)
KfreePush(p) ==
  /\ panicked = "" /\ pc[p] = "kf_push"
  /\ mem' = Wr(mem, arg[p].obj, kfl)
  /\ kfl' = arg[p].obj
  /\ klock' = 0
  /\ pc' = [pc EXCEPT ![p] = "idle"]
  /\ arg' = [arg EXCEPT ![p] = NoArg]
  /\ UNCHANGED <<panicked, slock, sfl, held, nfrees, cvars, svars>>

\* ---- superalloc
SuperallocAcquire(p) ==
  /\ Running(p) /\ "2m" \in wl.sizes
  /\ Taking < wl.hold
  /\ slock = 0
  /\ slock' = p
  /\ pc' = [pc EXCEPT ![p] = "sa_pop"]
  /\ UNCHANGED <<mem, kfl, panicked, arg, klock, sfl, held, nfrees, cvars, svars>>

\* r = supermem.freelist; if (r) supermem.freelist = r->next; release
SuperallocPop(p) ==
  /\ panicked = "" /\ pc[p] = "sa_pop"
  /\ IF sfl # NULL /\ ~InMem(sfl)
     THEN /\ panicked' = "trap"
          /\ pc' = [pc EXCEPT ![p] = "stopped"]
          /\ UNCHANGED <<sfl, slock, arg>>
     ELSE /\ sfl' = IF sfl # NULL THEN Rd(mem, sfl) ELSE sfl
          /\ slock' = 0
          /\ arg' = [arg EXCEPT ![p] = FrameArg(sfl)]
          /\ pc' = [pc EXCEPT ![p] = "sa_fill"]
          /\ panicked' = panicked
  /\ UNCHANGED <<mem, kfl, klock, held, nfrees, cvars, svars>>

\* Mutant: only the link word of the super-frame is cleared.
SuperallocFill_LinkOnly(p) ==
  /\ panicked = "" /\ pc[p] = "sa_fill"
  /\ IF arg[p].obj # NULL
     THEN /\ mem' = Wr(mem, arg[p].obj, 0)
          /\ held' = held \cup {Holding(arg[p].obj, SUPERPGSIZE)}
     ELSE UNCHANGED <<mem, held>>
  /\ pc' = [pc EXCEPT ![p] = "idle"]
  /\ arg' = [arg EXCEPT ![p] = NoArg]
  /\ UNCHANGED <<kfl, panicked, klock, slock, sfl, nfrees, cvars, svars>>

\* if (r) memset(r, 0, SUPERPGSIZE); return r
SuperallocFill(p) ==
  /\ panicked = "" /\ pc[p] = "sa_fill"
  /\ IF arg[p].obj # NULL
     THEN /\ mem' = MemsetSuper(mem, arg[p].obj, 0)
          /\ held' = held \cup {Holding(arg[p].obj, SUPERPGSIZE)}
     ELSE UNCHANGED <<mem, held>>
  /\ pc' = [pc EXCEPT ![p] = "idle"]
  /\ arg' = [arg EXCEPT ![p] = NoArg]
  /\ UNCHANGED <<kfl, panicked, klock, slock, sfl, nfrees, cvars, svars>>

\* ---- superfree
\* The test of pa, which panics, and memset(pa, 1, SUPERPGSIZE).
SuperfreeCall(p, pa) ==
  /\ Running(p) /\ "2m" \in wl.sizes
  /\ nfrees < MaxFrees
  /\ nfrees' = nfrees + 1
  /\ arg' = [arg EXCEPT ![p] = FrameArg(pa)]
  /\ IF pa % SUPERPGSIZE # 0 \/ pa < SuperStart
          \/ pa >= SuperStart + NSUPERPAGES * SUPERPGSIZE
     THEN /\ panicked' = "panic"
          /\ pc' = [pc EXCEPT ![p] = "stopped"]
          /\ UNCHANGED <<mem, held>>
     ELSE /\ mem' = MemsetSuper(mem, pa, 1)
          /\ held' = held \ {Holding(pa, SUPERPGSIZE)}
          /\ pc' = [pc EXCEPT ![p] = "sf_acq"]
          /\ panicked' = panicked
  /\ UNCHANGED <<kfl, klock, slock, sfl, cvars, svars>>

SuperfreeAcquire(p) ==
  /\ panicked = "" /\ pc[p] = "sf_acq"
  /\ slock = 0
  /\ slock' = p
  /\ pc' = [pc EXCEPT ![p] = "sf_push"]
  /\ UNCHANGED <<mem, kfl, panicked, arg, klock, sfl, held, nfrees, cvars, svars>>

\* Mutant: the super-frame is not linked into the list.
SuperfreePush_Lost(p) ==
  /\ panicked = "" /\ pc[p] = "sf_push"
  /\ mem' = Wr(mem, arg[p].obj, sfl)
  /\ slock' = 0
  /\ pc' = [pc EXCEPT ![p] = "idle"]
  /\ arg' = [arg EXCEPT ![p] = NoArg]
  /\ UNCHANGED <<kfl, sfl, panicked, klock, held, nfrees, cvars, svars>>

\* r->next = supermem.freelist; supermem.freelist = r; release
SuperfreePush(p) ==
  /\ panicked = "" /\ pc[p] = "sf_push"
  /\ mem' = Wr(mem, arg[p].obj, sfl)
  /\ sfl' = arg[p].obj
  /\ slock' = 0
  /\ pc' = [pc EXCEPT ![p] = "idle"]
  /\ arg' = [arg EXCEPT ![p] = NoArg]
  /\ UNCHANGED <<kfl, panicked, klock, held, nfrees, cvars, svars>>

\* A free list as the sequence of its nodes, cut after n.
RECURSIVE FreeChain(_, _, _)
FreeChain(m, a, n) ==
  IF a = NULL \/ n = 0 \/ a < 0 \/ PageOf(a) \notin DOMAIN m THEN <<>>
  ELSE <<a>> \o FreeChain(m, Rd(m, a), n - 1)
KmemList == FreeChain(mem, kfl, NFrames + 2)
SupermemList == FreeChain(mem, sfl, NSUPERPAGES + 2)

\* What the callers pass to kfree: a frame they hold; when they break the
\* contract, an address inside such a frame, below the kernel's end or at
\* PHYSTOP ("badaddr"), a page of a super-frame ("super"), or a frame that is
\* on the free list ("double").
KfreeArgs ==
  LET mine == {h.pa : h \in {x \in held : x.sz = PGSIZE}}
  IN mine
       \cup (IF wl.misuse = "badaddr"
             THEN {f + 8 : f \in mine} \cup {KernelEnd - PGSIZE, PHYSTOP}
             ELSE {})
       \cup (IF wl.misuse = "super"
             THEN UNION {SuperPages(h.pa) : h \in {x \in held : x.sz = SUPERPGSIZE}}
                    \cup (IF sfl \in Supers THEN SuperPages(sfl) ELSE {})
             ELSE {})
       \cup (IF wl.misuse = "double" THEN Range(KmemList) ELSE {})

\* What they pass to superfree: a super-frame they hold; when they break the
\* contract, a page inside it, null, the address after the reserved region or
\* a 4 KiB frame.
SuperfreeArgs ==
  LET mine == {h.pa : h \in {x \in held : x.sz = SUPERPGSIZE}}
  IN mine
       \cup (IF wl.misuse = "badaddr"
             THEN {s + PGSIZE : s \in mine} \cup {NULL, FrameBase, FrameBase + PGSIZE}
             ELSE {})

NextFrames ==
  \E p \in CPUs :
    \/ KallocAcquire(p)
    \/ KallocPop(p)
    \/ KallocFill(p)
    \/ \E pa \in KfreeArgs : KfreeCall(p, pa)
    \/ KfreeAcquire(p)
    \/ KfreePush(p)
    \/ SuperallocAcquire(p)
    \/ SuperallocPop(p)
    \/ SuperallocFill(p)
    \/ \E pa \in SuperfreeArgs : SuperfreeCall(p, pa)
    \/ SuperfreeAcquire(p)
    \/ SuperfreePush(p)

\* Callers that keep the contract: two CPUs on each size class, one CPU on both.
FrameWorkloads ==
  {FrameWorkload(CPUs, {"4k"}, "none", NoLimit), FrameWorkload(CPUs, {"2m"}, "none", NoLimit),
   FrameWorkload({1}, {"4k", "2m"}, "none", NoLimit)}
InitFrames == InitState(BootHeap.mem @@ BootSuper.mem) /\ wl \in FrameWorkloads
SpecFrames == InitFrames /\ [][NextFrames]_vars

\* Callers that break it.
FrameMisuseWorkloads ==
  {FrameWorkload(CPUs, {"4k"}, "badaddr", NoLimit),
   FrameWorkload({1}, {"2m"}, "badaddr", NoLimit),
   FrameWorkload(CPUs, {"4k"}, "double", NoLimit),
   FrameWorkload({1}, {"4k", "2m"}, "super", 2)}
InitFrameMisuse == InitState(BootHeap.mem @@ BootSuper.mem) /\ wl \in FrameMisuseWorkloads
SpecFrameMisuse == InitFrameMisuse /\ [][NextFrames]_vars

\* ----------------------------------------------------- frame allocator claims
\* How many times frame f is accounted for: places on the 4 KiB free list,
\* callers holding it, and calls that have it in hand (popped and not yet
\* returned, or passed to kfree and not yet pushed).
InHand(f, pcs) == Cardinality({q \in CPUs : pc[q] \in pcs /\ arg[q].obj = f})
TimesOwned(f, onlist) ==
  (IF f \in onlist THEN 1 ELSE 0)
    + (IF Holding(f, PGSIZE) \in held THEN 1 ELSE 0)
    + InHand(f, {"ka_fill", "kf_acq", "kf_push"})
FramesAccounted ==
  LET l == KmemList
      onlist == Range(l)
  IN /\ Cardinality(onlist) = Len(l)
     /\ onlist \subseteq Frames
     /\ \A f \in Frames : TimesOwned(f, onlist) = 1

\* C22: under any interleaving of kalloc and kfree by callers that free only
\* frames they hold, every 4 KiB frame is at every moment on the free list
\* exactly once or held by exactly one caller; kalloc returns no frame that is
\* still held, only 4 KiB-aligned addresses, and null only when the free list
\* is empty.
C22_FramesConserved ==
  [][/\ FramesAccounted
     /\ \A p \in CPUs :
          /\ (pc[p] = "ka_pop" /\ pc'[p] = "ka_fill")
               => (arg'[p].obj = NULL <=> kfl = NULL)
          /\ (pc[p] = "ka_fill" /\ pc'[p] = "idle" /\ arg[p].obj # NULL)
               => /\ arg[p].obj % PGSIZE = 0 /\ arg[p].obj \in Frames
                  /\ Holding(arg[p].obj, PGSIZE) \notin held
                  /\ \A q \in CPUs \ {p} : arg[q].obj # arg[p].obj]_vars
C22_Witness ==
  /\ pc[1] = "ka_fill" /\ arg[1].obj # NULL
  /\ pc[2] = "kf_acq"
  /\ nfrees >= 2 /\ Cardinality(held) >= 2

\* A step in which CPU p calls kfree or superfree.
FreeFrameCall(p) == pc[p] = "idle" /\ pc'[p] # "idle" /\ nfrees' = nfrees + 1

\* C23: kfree with an address that is not 4 KiB-aligned, below the kernel's
\* end or at or above PHYSTOP panics, and so does superfree with an address
\* that is not 2 MiB-aligned or outside the reserved region; at the panic no
\* memory has been poisoned and both free lists are unchanged.
C23_BadAddressPanics ==
  [][\A p \in CPUs : FreeFrameCall(p) =>
       LET pa == arg'[p].obj
           fatal == panicked' = "panic" /\ pc'[p] = "stopped"
                      /\ mem' = mem /\ kfl' = kfl /\ sfl' = sfl
       IN /\ (wl.sizes = {"4k"}
                /\ (pa % PGSIZE # 0 \/ pa < KernelEnd \/ pa >= PHYSTOP)) => fatal
          /\ (wl.sizes = {"2m"}
                /\ (pa % SUPERPGSIZE # 0 \/ pa \notin Supers)) => fatal]_vars
C23_Witness ==
  /\ panicked = "panic" /\ wl.sizes = {"4k"}
  /\ pc[1] = "stopped" /\ arg[1].obj % PGSIZE # 0 /\ PageOf(arg[1].obj) \in Frames
  /\ pc[2] = "kf_acq"

KfreePcs == {"kf_acq", "kf_push"}
InSuperRegion(a) == SuperStart <= a /\ a < SuperStart + NSUPERPAGES * SUPERPGSIZE

\* C24: kfree with a 4 KiB-aligned address inside the reserved super-frame
\* region is fatal (the call gets no further than its test), and no such
\* address is ever on the 4 KiB free list.
C24_SuperRegionRejected ==
  /\ \A p \in CPUs : pc[p] \in KfreePcs => ~InSuperRegion(arg[p].obj)
  /\ \A a \in Range(KmemList) : ~InSuperRegion(a)

\* C25: kfree of a frame that is already on the 4 KiB free list is fatal (the
\* call gets no further than its test); the list never holds a frame twice
\* and never becomes cyclic.
C25_DoubleFreeFatal ==
  LET l == KmemList
  IN /\ \A p \in CPUs : pc[p] \in KfreePcs => arg[p].obj \notin Range(l)
     /\ Cardinality(Range(l)) = Len(l)
     /\ Len(l) <= NFrames

\* Super-frames handed out and not yet back on the list.
SuperPcs == {"sa_fill", "sf_acq", "sf_push"}
Outstanding ==
  Cardinality({h \in held : h.sz = SUPERPGSIZE})
    + Cardinality({q \in CPUs : pc[q] \in SuperPcs /\ arg[q].obj # NULL})

\* C26: there are exactly NSUPERPAGES = 8 super-frames, 2 MiB-aligned and
\* pairwise disjoint, each on the list once or handed out once; superalloc
\* returns null exactly when 8 are outstanding (so the 9th allocation with
\* none freed fails and the one after a superfree succeeds).
C26_SuperFrames ==
  [][LET l == SupermemList
     IN /\ Cardinality(Supers) = 8
        /\ \A s \in Supers : s % SUPERPGSIZE = 0
        /\ \A s1, s2 \in Supers : s1 < s2 => s1 + SUPERPGSIZE <= s2
        /\ Range(l) \subseteq Supers /\ Cardinality(Range(l)) = Len(l)
        /\ \A s \in Supers :
             (IF s \in Range(l) THEN 1 ELSE 0)
               + (IF Holding(s, SUPERPGSIZE) \in held THEN 1 ELSE 0)
               + InHand(s, SuperPcs) = 1
        /\ \A p \in CPUs :
             (pc[p] = "sa_pop" /\ pc'[p] = "sa_fill")
               => /\ arg'[p].obj = NULL <=> Outstanding = 8
                  /\ arg'[p].obj # NULL => arg'[p].obj \in Supers]_vars
C26_Witness ==
  /\ Cardinality({h \in held : h.sz = SUPERPGSIZE}) = 8
  /\ nfrees = 1
  /\ \E p \in CPUs : pc[p] = "sa_fill" /\ arg[p].obj = NULL

ZeroFilled(m, s) ==
  \A f \in SuperPages(s) : m[f].fill = 0 /\ \A o \in DOMAIN m[f].w : m[f].w[o] = 0

\* C27: every non-null super-frame superalloc returns is entirely zero at the
\* moment it is returned, also when it was used, poisoned and linked into the
\* free list before, and while other CPUs allocate and free super-frames.
C27_SuperZeroFilled ==
  [][\A p \in CPUs :
       (pc[p] = "sa_fill" /\ pc'[p] = "idle" /\ arg[p].obj # NULL)
         => /\ Holding(arg[p].obj, SUPERPGSIZE) \in held'
            /\ ZeroFilled(mem', arg[p].obj)]_vars
C27_Witness ==
  /\ Cardinality({h \in held : h.sz = SUPERPGSIZE}) = 7
  /\ pc[1] = "idle" /\ pc[2] = "sf_acq"
  /\ nfrees >= 2
  /\ \A h \in held : ZeroFilled(mem, h.pa)

\* ------------------------------------------------------ callbacks and locks
HoldsCacheLock(m, p) == \E c \in caches : LockHolder(m, c) = p

\* C29: no ctor or dtor is invoked while the invoking CPU holds the cache
\* lock: the ctor call comes after the release, the dtor call before the
\* acquire, and a step a CPU takes with the lock held calls neither.
C29_CallbacksOutsideLock ==
  [][\A p \in CPUs :
       /\ (pc[p] \in {"a_ctor", "f_dtor"} /\ pc'[p] # pc[p])
            => ~HoldsCacheLock(mem, p) /\ LockHolder(mem, arg[p].c) # p
       /\ (pc'[p] # pc[p] /\ (HoldsCacheLock(mem, p) \/ HoldsCacheLock(mem', p)))
            => /\ ctor_call_count' = ctor_call_count
               /\ dtor_call_count' = dtor_call_count
       /\ (pc[p] = "a_ctor" /\ pc'[p] = "a_ret" /\ HasCtor(mem, arg[p].c))
            => ctor_call_count' = ctor_call_count + 1
       /\ (pc[p] = "f_dtor" /\ pc'[p] = "f_acq" /\ HasDtor(mem, arg[p].c))
            => dtor_call_count' = dtor_call_count + 1]_vars
C29_Witness ==
  /\ pc[1] = "a_ret" /\ HasCtor(mem, arg[1].c) /\ Rd(mem, arg[1].obj) = PAT_CTOR
  /\ pc[2] = "f_rel" /\ arg[2].c = arg[1].c /\ LockHolder(mem, arg[2].c) = 2
  /\ dtor_call_count >= 1

\* The cache locks CPU p holds (a cache being destroyed has left `caches`).
CacheLocksOf(p) ==
  {c \in (caches \cup {arg[q].c : q \in CPUs}) \ {NULL} : LockHolder(mem, c) = p}
\* Where a CPU waits for a cache lock, where it waits for a frame-allocator
\* lock, and where a lock holder is about to release.
CacheWaitPcs == {"f_acq", "d_acq"}
FrameWaitPcs == {"kf_acq", "sf_acq"}
ReleasePcs == {"a_rel", "f_rel", "d_rel", "ka_pop", "kf_push", "sa_pop", "sf_push"}

\* C28: locks are taken only in the order cache lock, frame-allocator lock;
\* no CPU holds two cache locks or waits for a lock it holds; whoever holds a
\* lock is about to release it (no deadlock), and no call has stopped for good
\* in a panic, a trap or an endless loop (every call returns).
C28_LocksAndProgress ==
  \A p \in CPUs :
    /\ Cardinality(CacheLocksOf(p)) <= 1
    /\ (klock = p \/ slock = p) => (CacheLocksOf(p) = {} /\ pc[p] \in ReleasePcs)
    /\ ~(klock = p /\ slock = p)
    /\ pc[p] \in CacheWaitPcs => arg[p].c \notin CacheLocksOf(p)
    /\ CacheLocksOf(p) # {} => pc[p] \in ReleasePcs \cup {"stopped"}
    /\ pc[p] # "stopped"

\* ------------------------------------------------------ the system calls
\* cache_table[i], 0 for a slot that is not occupied.
TableAt(t, i) == IF i \in DOMAIN t THEN t[i] ELSE NULL
\* A scan that returns the highest slot that holds 0.
alloc_cache_id_Highest(t) ==
  IF \E i \in 0..(MAX_CACHES - 1) : TableAt(t, i) = NULL
  THEN CHOOSE i \in 0..(MAX_CACHES - 1) :
         TableAt(t, i) = NULL /\ \A j \in (i + 1)..(MAX_CACHES - 1) : TableAt(t, j) # NULL
  ELSE -1
\* The lowest slot that holds 0, or -1.
alloc_cache_id(t) ==
  IF \E i \in 0..(MAX_CACHES - 1) : TableAt(t, i) = NULL
  THEN CHOOSE i \in 0..(MAX_CACHES - 1) :
         TableAt(t, i) = NULL /\ \A j \in 0..(i - 1) : TableAt(t, j) # NULL
  ELSE -1
\* The test the three calls that take a handle start with.
ValidId(t, id) == id >= 0 /\ id < MAX_CACHES /\ TableAt(t, id) # NULL

\* CPU p is in user space, between system calls.
UserMode(p) == Running(p) /\ sys[p].st \in {"none", "done"}
InSys(p, call, st) == panicked = "" /\ pc[p] = "idle" /\ sys[p].call = call /\ sys[p].st = st
\* What is kept of a system call that has returned: which call it was, the
\* handle it was given, whether it was given an object of the cache, and
\* whether memory (for create: the number of free frames) is as the call
\* found it.
Done(r) ==
  [NoSys EXCEPT !.call = r.call, !.st = "done", !.id = r.id, !.isobj = r.isobj,
                !.same = IF r.call \in {"create", "full"}
                         THEN r.pre = Cardinality(FreeFrames(mem, kfl))
                         ELSE r.pre = <<>> \/ r.pre = mem]
\* The system call of CPU p returns v to user space.
SysDone(p, v) ==
  /\ ret' = [ret EXCEPT ![p] = v]
  /\ sys' = [sys EXCEPT ![p] = Done(@)]
\* The system call of CPU p is about to call the slab engine.
SysEnter(p, call, id, obj, cfg) ==
  [NoSys EXCEPT !.call = call, !.st = "enter", !.id = id, !.obj = obj, !.cfg = cfg,
                !.isobj = \E l \in live : l.obj = obj /\ l.c = TableAt(cache_table, id),
                !.pre = IF call = "free" THEN mem
                        ELSE IF call = "create" THEN Cardinality(FreeFrames(mem, kfl))
                        ELSE <<>>]
evars == <<mem, kfl, panicked, pc, arg, caches, live, nlive, ctor_call_count,
           dtor_call_count, alloc_ok_count, free_call_count, ncreate, last_create,
           peak, wl, fvars>>

\* sys_kmem_cache_create: the arguments are fetched (the name is a string
\* of the user's).
SysCreateEnter(p, cfg) ==
  /\ UserMode(p)
  /\ Cardinality(caches) + Cardinality({q \in CPUs : InSys(q, "create", "enter")})
       < wl.ncaches
  /\ ncreate + Cardinality({q \in CPUs : InSys(q, "create", "enter")}) < wl.ncreates
  /\ sys' = [sys EXCEPT ![p] = SysEnter(p, "create", 0, NULL, cfg)]
  /\ UNCHANGED <<evars, cache_table, ret>>

\* After kmem_cache_create has returned: -1 for no cache; else
\* alloc_cache_id, and with no slot left kmem_cache_destroy(cache), after
\* which the call returns -1.
SysCreateFinish(p) ==
  /\ \/ InSys(p, "create", "called")
     \/ InSys(p, "full", "called")
  /\ IF sys[p].call = "full" \/ sys[p].r = NULL
     THEN SysDone(p, -1)
     ELSE LET cache_id == alloc_cache_id(cache_table)
          IN /\ sys' = [sys EXCEPT ![p] =
                          IF cache_id < 0
                          THEN [@ EXCEPT !.call = "full", !.st = "enter"]
                          ELSE [@ EXCEPT !.st = "store", !.id = cache_id]]
             /\ ret' = ret
  /\ UNCHANGED <<evars, cache_table>>

\* cache_table[cache_id] = cache; return cache_id.
SysCreateStore(p) ==
  /\ InSys(p, "create", "store")
  /\ cache_table' = (sys[p].id :> sys[p].r) @@ cache_table
  /\ SysDone(p, sys[p].id)
  /\ UNCHANGED evars

\* sys_kmem_cache_alloc: the test of the handle.
SysAllocEnter(p, cache_id) ==
  /\ UserMode(p)
  /\ nlive + Cardinality({q \in CPUs : sys[q].call = "alloc" /\ sys[q].st # "done"})
       < wl.hold
  /\ IF ValidId(cache_table, cache_id)
     THEN /\ sys' = [sys EXCEPT ![p] = SysEnter(p, "alloc", cache_id, NULL, NoSys.cfg)]
          /\ ret' = ret
     ELSE /\ sys' = [sys EXCEPT ![p] = Done(SysEnter(p, "alloc", cache_id, NULL, NoSys.cfg))]
          /\ ret' = [ret EXCEPT ![p] = 0]
  /\ UNCHANGED <<evars, cache_table>>

\* return (uint64)obj.
SysAllocReturn(p) ==
  /\ InSys(p, "alloc", "called")
  /\ SysDone(p, sys[p].r)
  /\ UNCHANGED <<evars, cache_table>>

\* sys_kmem_cache_free: the test of the handle; the address is the user's.
SysFreeEnter(p, cache_id, obj_addr) ==
  /\ UserMode(p)
  /\ IF ValidId(cache_table, cache_id)
     THEN /\ sys' = [sys EXCEPT ![p] = SysEnter(p, "free", cache_id, obj_addr, NoSys.cfg)]
          /\ ret' = ret
     ELSE /\ sys' = [sys EXCEPT ![p] = Done(SysEnter(p, "free", cache_id, obj_addr, NoSys.cfg))]
          /\ ret' = [ret EXCEPT ![p] = -1]
  /\ UNCHANGED <<evars, cache_table>>

\* return 0.
SysFreeReturn(p) ==
  /\ InSys(p, "free", "called")
  /\ SysDone(p, 0)
  /\ UNCHANGED <<evars, cache_table>>

\* sys_kmem_cache_destroy: the test of the handle.
SysDestroyEnter(p, cache_id) ==
  /\ UserMode(p)
  /\ IF ValidId(cache_table, cache_id)
     THEN /\ sys' = [sys EXCEPT ![p] = SysEnter(p, "destroy", cache_id, NULL, NoSys.cfg)]
          /\ ret' = ret
     ELSE /\ sys' = [sys EXCEPT ![p] = Done(SysEnter(p, "destroy", cache_id, NULL, NoSys.cfg))]
          /\ ret' = [ret EXCEPT ![p] = -1]
  /\ UNCHANGED <<evars, cache_table>>

\* cache_table[cache_id] = 0; return 0.
SysDestroyReturn(p) ==
  /\ InSys(p, "destroy", "called")
  /\ cache_table' = [i \in DOMAIN cache_table \ {sys[p].id} |-> cache_table[i]]
  /\ SysDone(p, 0)
  /\ UNCHANGED evars

\* The slots other programs' caches occupy are the lowest wl.taken ones;
\* those caches lie in frames the model does not follow.
OtherCache == FrameBase - PGSIZE
OwnHandles == {i \in DOMAIN cache_table : i >= wl.taken}
\* What user programs pass.  Handles: the ones create returned and, where
\* the workload says so, a negative one, one past the table and an unused one.
SysIds ==
  OwnHandles
    \cup (IF wl.nulls THEN {-1, MAX_CACHES, alloc_cache_id(cache_table)} ELSE {})
\* A user address that is no kernel address.
UserAddr == PGSIZE
\* Addresses for sys_kmem_cache_free: the objects the program was given
\* (those no other CPU is handing back at the moment) and,
\* from a program that passes anything, 0, a user address, the address of the
\* cache itself and, once per cache, an address inside an object.
SysFreeArgs ==
  LET freeing == {sys[q].obj : q \in {r \in CPUs : sys[r].call = "free" /\ sys[r].st = "enter"}}
      mine == {x \in (DOMAIN cache_table) \X live :
                 x[2].c = cache_table[x[1]] /\ x[2].obj \notin freeing}
      held_objs == {<<x[1], x[2].obj>> : x \in mine}
      null_objs == IF wl.nulls THEN {<<i, NULL>> : i \in SysIds} ELSE {}
      any_addr ==
        IF wl.misuse = "user"
        THEN ({<<i, NULL>> : i \in DOMAIN cache_table}
                \cup {<<i, UserAddr>> : i \in DOMAIN cache_table})
               \cup ({<<i, cache_table[i]>> : i \in DOMAIN cache_table}
                       \cup {<<x[1], x[2].obj + 8>> : x \in {y \in mine : Unbroken(y[2].c)}})
        ELSE {}
  IN (held_objs \cup null_objs) \cup any_addr
\* The cache the system call of CPU p passes to the slab engine: read from
\* the table at the call, or the cache create could not file.
SysCache(p) ==
  IF sys[p].call = "full" THEN sys[p].r ELSE TableAt(cache_table, sys[p].id)

NextSys ==
  \E p \in CPUs :
    \/ \E cfg \in wl.cfgs : SysCreateEnter(p, cfg)
    \/ InSys(p, "create", "enter") /\ Create(p, sys[p].cfg)
    \/ SysCreateFinish(p)
    \/ SysCreateStore(p)
    \/ Return(p)
    \/ \E i \in SysIds : SysAllocEnter(p, i)
    \/ InSys(p, "alloc", "enter") /\ AllocLocked(p, SysCache(p))
    \/ AllocRelease(p)
    \/ AllocCtor(p)
    \/ AllocReturn(p)
    \/ SysAllocReturn(p)
    \/ \E a \in SysFreeArgs : SysFreeEnter(p, a[1], a[2])
    \/ InSys(p, "free", "enter") /\ FreeCall(p, SysCache(p), sys[p].obj)
    \/ FreeDtor(p)
    \/ FreeLocked(p)
    \/ FreeRelease(p)
    \/ SysFreeReturn(p)
    \/ \E i \in SysIds : SysDestroyEnter(p, i)
    \/ (InSys(p, "destroy", "enter") \/ InSys(p, "full", "enter")) /\ DestroyCall(p, SysCache(p))
    \/ DestroyLocked(p)
    \/ DestroyRelease(p)
    \/ SysDestroyReturn(p)

\* User programs: one that passes any address to free, two CPUs sharing one
\* cache, one program with two caches that also passes bad handles, and two
\* CPUs creating and destroying caches side by side; each with the number of
\* objects the programs hold at a time.
SysWorkload(w, how, hold) ==
  [cpus |-> w.cpus, ncaches |-> w.ncaches, ncreates |-> w.ncreates, cfgs |-> w.cfgs,
   nulls |-> w.nulls, misuse |-> how, hold |-> hold, taken |-> 0]
SysWorkloads ==
  {SysWorkload(Workload({1}, 1, 1, {Cfg(1200, 0, FALSE)}, FALSE), "user", 2),
   SysWorkload(Workload(CPUs, 1, 1, {Cfg(2048, 0, FALSE)}, FALSE), "none", 1),
   SysWorkload(Workload({1}, MaxCaches, MaxCreates, {Cfg(2048, 0, FALSE)}, TRUE), "none", 3),
   SysWorkload(Workload(CPUs, MaxCaches, MaxCreates, {Cfg(2048, 0, FALSE)}, FALSE), "none", 0)}
InitSys == InitCommon /\ wl \in SysWorkloads
SpecSys == InitSys /\ [][NextSys]_vars

\* C30: through the system calls no failure stops the kernel, and
\* sys_kmem_cache_free with an address that is not an object of the cache
\* returns a negative value and leaves memory as it found it.
C30_SysFailuresReported ==
  /\ panicked = ""
  /\ \A p \in CPUs :
       (sys[p].call = "free" /\ sys[p].st = "done" /\ ~sys[p].isobj) =>
         /\ ret[p] < 0
         /\ Cardinality(wl.cpus) = 1 => sys[p].same

\* ------------------------------------------------- one object per slab
\* A cache whose slabs hold one object each.
OneObjectCache(m, c) == PerSlab(objsize_of(m, c)) = 1

\* C31: on a cache with one object per slab no kmem_cache_alloc and no
\* kmem_cache_free stops the kernel, and the objects handed out are non-null
\* and lie in distinct slabs.
C31_OneObjectSlabs ==
  \A c \in caches :
    OneObjectCache(mem, c) =>
      /\ \A p \in CPUs : arg[p].c = c => pc[p] # "stopped"
      /\ \A l \in Held : l.c = c => l.obj # NULL
      /\ \A l1, l2 \in Held :
           (l1.c = c /\ l2.c = c /\ l1.obj # l2.obj) => PageOf(l1.obj) # PageOf(l2.obj)

\* C32: on a workload whose caches have one object per slab,
\* kmem_cache_destroy returns: no CPU stops inside it (a cache being
\* destroyed has left `caches`).
C32_OneObjectDestroy ==
  (\A cfg \in wl.cfgs : PerSlab(align_size(cfg.size, cfg.align)) = 1) =>
    \A p \in CPUs :
      (arg[p].c # NULL /\ arg[p].c \notin caches) => pc[p] # "stopped"

\* ------------------------------------------------------- source of an alloc
\* C33: an alloc that returns takes the head of the freelist of the head
\* slab of partial, else of the head slab of empty, without calling the frame
\* allocator; only with both lists empty does it take frames, and then it
\* returns the first object of the new slab.  A free leaves its object at the
\* head of its slab's freelist, so it is the next one handed out from there.
C33_AllocSource ==
  [][\A p \in CPUs :
       /\ \A c \in caches :
            (AllocStep(p, c) /\ pc'[p] = "a_rel") =>
              LET partial == Rd(mem, c + C_partial)
                  empty == Rd(mem, c + C_empty)
                  src == IF partial # NULL THEN partial ELSE empty
              IN IF src # NULL
                 THEN /\ arg'[p].obj = Rd(mem, src + S_freelist)
                      /\ Rd(mem', src + S_freelist) = Rd(mem, arg'[p].obj)
                      /\ kfl' = kfl
                 ELSE arg'[p].obj # NULL =>
                        /\ kfl' # kfl
                        /\ PageOf(arg'[p].obj) \in FreeFrames(mem, kfl)
                        /\ Off(arg'[p].obj) = 0
                        /\ Rd(mem', c + C_partial) \in FreeFrames(mem, kfl)
                        /\ slab_mem(mem', Rd(mem', c + C_partial)) = arg'[p].obj
       /\ (pc[p] = "f_acq" /\ pc'[p] = "f_rel") =>
            \E s \in ListedSlabs(mem', arg[p].c) :
              /\ PageOf(arg[p].obj) = slab_mem(mem', s)
              /\ Rd(mem', s + S_freelist) = arg[p].obj]_vars
\* An alloc has taken its object from a slab that was on the empty list: both
\* objects of the slab had been out and had come back.
C33_Witness ==
  \E p \in CPUs : \E c \in caches :
    /\ pc[p] = "a_rel" /\ arg[p].c = c /\ arg[p].obj # NULL
    /\ peak[c] >= 2 /\ OutOf(c) = 1
    /\ Rd(mem, c + C_partial) # NULL
    /\ slab_mem(mem, Rd(mem, c + C_partial)) = PageOf(arg[p].obj)
    /\ Rd(mem, c + C_empty) = NULL

FreeObjects(m, c) == UNION {Range(Freelist(m, s)) : s \in ListedSlabs(m, c)}

\* C35: the object a free is running the dtor on, or has run it on and not
\* pushed yet, is on no freelist and in no other CPU's hands; an object of a
\* ctor cache that alloc is about to return, or that a client holds, is in the
\* state the ctor left it in.
C35_CallbackOrder ==
  /\ \A p \in CPUs :
       (pc[p] \in {"f_dtor", "f_acq"} /\ HasDtor(mem, arg[p].c)) =>
         /\ arg[p].obj \notin FreeObjects(mem, arg[p].c)
         /\ [c |-> arg[p].c, obj |-> arg[p].obj] \notin Held
         /\ \A q \in CPUs \ {p} : pc[q] # "idle" => arg[q].obj # arg[p].obj
  /\ \A p \in CPUs :
       (pc[p] = "a_ret" /\ HasCtor(mem, arg[p].c)) => Rd(mem, arg[p].obj) = PAT_CTOR
  /\ \A l \in live : HasCtor(mem, l.c) => Rd(mem, l.obj) = PAT_CTOR
\* One CPU is about to return an object of a cache that has handed out more
\* objects than its slab holds, while the other has run the dtor on another
\* object of that cache and not pushed it yet.
C35_Witness ==
  \E c \in caches :
    /\ HasCtor(mem, c) /\ HasDtor(mem, c)
    /\ pc[1] = "a_ret" /\ arg[1].c = c
    /\ pc[2] = "f_acq" /\ arg[2].c = c
    /\ Cardinality(ListedSlabs(mem, c)) = 1
    /\ ctor_call_count > PerSlab(objsize_of(mem, c))
    /\ dtor_call_count >= 2

\* ------------------------------------------- fills of the frame allocator
\* Frame f is in the hands of a CPU other than p, or of a caller.
InOtherHands(hd, pcs, args, p, f, sz) ==
  \/ Holding(f, sz) \in hd
  \/ \E q \in CPUs \ {p} : pcs[q] # "idle" /\ args[q].obj = f
\* Frame f holds the poison byte everywhere but in its link word.
Poisoned(m, f) == m[f].fill = 1 /\ DOMAIN m[f].w \subseteq {0}

\* C36: kfree and superfree fill a frame before taking the lock and linking
\* it, kalloc and superalloc after unlinking it and dropping the lock; the
\* frame a CPU fills is on no free list and in no other hands; every frame on
\* the 4 KiB free list, and every frame kfree has filled and not linked yet,
\* holds the poison byte outside its link word.
C36_FillsOutsideLocks ==
  [][LET kl == Range(KmemList)
         sl == Range(SupermemList)
     IN /\ \A p \in CPUs :
             /\ (pc[p] = "idle" /\ pc'[p] = "kf_acq") =>
                  /\ klock # p /\ klock' # p
                  /\ arg'[p].obj \notin kl
                  /\ ~InOtherHands(held', pc', arg', p, arg'[p].obj, PGSIZE)
                  /\ mem'[arg'[p].obj] = [fill |-> 1, w |-> NoWords]
             /\ (pc[p] = "ka_fill" /\ pc'[p] = "idle" /\ arg[p].obj # NULL) =>
                  /\ klock # p /\ klock' # p
                  /\ arg[p].obj \notin kl
                  /\ ~InOtherHands(held, pc, arg, p, arg[p].obj, PGSIZE)
                  /\ mem'[arg[p].obj] = [fill |-> 5, w |-> NoWords]
             /\ (pc[p] = "idle" /\ pc'[p] = "sf_acq") =>
                  /\ slock # p /\ slock' # p
                  /\ arg'[p].obj \notin sl
                  /\ ~InOtherHands(held', pc', arg', p, arg'[p].obj, SUPERPGSIZE)
                  /\ \A f \in SuperPages(arg'[p].obj) : mem'[f] = [fill |-> 1, w |-> NoWords]
             /\ (pc[p] = "sa_fill" /\ pc'[p] = "idle" /\ arg[p].obj # NULL) =>
                  /\ slock # p /\ slock' # p
                  /\ arg[p].obj \notin sl
                  /\ ~InOtherHands(held, pc, arg, p, arg[p].obj, SUPERPGSIZE)
                  /\ \A f \in SuperPages(arg[p].obj) : mem'[f] = [fill |-> 0, w |-> NoWords]
             /\ pc[p] \in {"kf_acq", "kf_push"} => Poisoned(mem, arg[p].obj)
        /\ \A f \in kl : Poisoned(mem, f)]_vars
\* One CPU is about to fill the frame it has unlinked while the other has
\* poisoned a frame and waits to link it; nobody holds the lock.
C36_Witness ==
  /\ pc[1] = "ka_fill" /\ arg[1].obj # NULL
  /\ pc[2] = "kf_acq" /\ arg[2].obj # arg[1].obj
  /\ klock = 0
  /\ Poisoned(mem, arg[2].obj) /\ Poisoned(mem, arg[1].obj)

\* ------------------------------------------------ the virtual-memory client
\* The client's mappings are the frames it holds: a super-frame mapped by
\* one level-1 entry is held as a whole, a 4 KiB frame by a leaf entry.
\* uvmalloc takes frames with kalloc and superalloc; uvmunmap gives a whole
\* superpage back with superfree and a leaf page with kfree.

\* demote_superpage, called by uvmunmap for a superpage it unmaps in part:
\* the level-1 entry is replaced by leaf entries for the pages of the
\* super-frame, which uvmunmap then frees one by one with kfree.
DemoteSuperpage(p, s) ==
  /\ Running(p)
  /\ Holding(s, SUPERPGSIZE) \in held
  /\ held' = (held \ {Holding(s, SUPERPGSIZE)}) \cup {Holding(f, PGSIZE) : f \in SuperPages(s)}
  /\ UNCHANGED <<mem, kfl, panicked, pc, arg, klock, slock, sfl, nfrees, cvars, svars>>

NextVm ==
  \/ NextFrames
  \/ \E p \in CPUs : \E s \in Supers : DemoteSuperpage(p, s)

\* One process growing and shrinking, and two doing so side by side.
VmWorkloads ==
  {FrameWorkload({1}, {"4k", "2m"}, "none", 2), FrameWorkload(CPUs, {"4k", "2m"}, "none", 1)}
InitVm == InitState(BootHeap.mem @@ BootSuper.mem) /\ wl \in VmWorkloads
SpecVm == InitVm /\ [][NextVm]_vars

\* C37: the 4 KiB free list holds frames of the 4 KiB region only, and
\* every super-frame is on the super-frame free list, in a superalloc or
\* superfree call, or in use as a whole (mapped by one entry, or all its
\* pages mapped).
C37_RegionsKept ==
  LET kl == Range(KmemList)
      sl == Range(SupermemList)
  IN /\ kl \subseteq Frames
     /\ \A s \in Supers :
          \/ s \in sl
          \/ Holding(s, SUPERPGSIZE) \in held
          \/ \E q \in CPUs : pc[q] \in {"sa_fill", "sf_acq", "sf_push"} /\ arg[q].obj = s
          \/ \A f \in SuperPages(s) : Holding(f, PGSIZE) \in held

\* ------------------------------------------------------ the handle table
\* The caches a sys_kmem_cache_create has built and not yet filed or given up.
BeingFiled ==
  {sys[q].r : q \in {r \in CPUs : sys[r].call \in {"create", "full"}
                                   /\ sys[r].st \in {"called", "store", "enter"}}}

\* C38: with sys_kmem_cache_create running on several CPUs, every cache
\* that exists is in the handle table or still with the call that built it
\* (no slot is overwritten while occupied, no cache is leaked), and no two
\* creates are about to return the same handle.
C38_HandlesDistinct ==
  /\ \A c \in caches : (\E i \in DOMAIN cache_table : cache_table[i] = c) \/ c \in BeingFiled
  /\ \A p, q \in CPUs :
       (p # q /\ InSys(p, "create", "store") /\ InSys(q, "create", "store")) =>
         sys[p].id # sys[q].id

\* C39: the system calls hand the slab engine live caches only: a CPU
\* inside kmem_cache_alloc or kmem_cache_free works on a cache that exists,
\* and no CPU inside any engine call works on a cache whose frame has
\* already been given back (a second destroy, or a call after the destroy).
C39_NoDestroyedCache ==
  \A p \in CPUs :
    (pc[p] \notin {"idle", "stopped"} /\ arg[p].c # NULL) =>
      /\ pc[p] \in AllocPcs \cup {"f_dtor", "f_acq", "f_rel"} => arg[p].c \in caches
      /\ arg[p].c \notin FreeFrames(mem, kfl)

\* ------------------------------------------------ handles, one program
\* One program that also passes bad handles: with the table to itself, and
\* with all slots but the last taken by other programs.
SysSeqWorkloads ==
  {[SysWorkload(Workload({1}, MaxCaches, MaxCreates, {Cfg(2048, 0, FALSE)}, TRUE), "none", 2)
      EXCEPT !.taken = t] : t \in {0, MAX_CACHES - 1}}
InitSysSeq ==
  /\ wl \in SysSeqWorkloads
  /\ InitTable(BootHeap.mem, [i \in 0..(wl.taken - 1) |-> OtherCache])
SpecSysSeq == InitSysSeq /\ [][NextSys]_vars

\* No slot of the table is free.
TableFull(t) == \A i \in 0..(MAX_CACHES - 1) : TableAt(t, i) # NULL
\* Handle i names a cache of the program: create returned it and destroy
\* has not released it.
LiveHandle(i) == i \in OwnHandles /\ cache_table[i] \in caches

\* C40: one program using the system calls in sequence.  A create that
\* files its cache returns the lowest unused handle and changes that slot
\* only; with the table full it returns -1, the cache it built is gone and
\* as many frames are free as before the call.  alloc, free and destroy
\* reach the slab engine exactly with a handle a create returned and no
\* destroy has released; with any other handle they return 0, -1 and -1 and
\* change neither the table nor memory.  A destroy leaves its handle unused.
C40_HandleLifetime ==
  [][\A p \in wl.cpus :
       (Cardinality(wl.cpus) = 1 /\ sys'[p] # sys[p]) =>
         /\ InSys(p, "create", "store") =>
              /\ ret'[p] \in 0..(MAX_CACHES - 1)
              /\ TableAt(cache_table, ret'[p]) = NULL
              /\ \A j \in 0..(ret'[p] - 1) : TableAt(cache_table, j) # NULL
              /\ TableAt(cache_table', ret'[p]) = sys[p].r
              /\ sys[p].r \in caches
              /\ \A j \in DOMAIN cache_table : TableAt(cache_table', j) = cache_table[j]
         /\ (InSys(p, "create", "called") /\ sys[p].r # NULL) =>
              (sys'[p].call = "full" <=> TableFull(cache_table))
         /\ (InSys(p, "full", "called") /\ sys'[p].st = "done") =>
              /\ ret'[p] = -1
              /\ sys'[p].same
              /\ sys[p].r \notin caches
              /\ cache_table' = cache_table
         /\ (UserMode(p) /\ sys'[p].call \in {"alloc", "free", "destroy"}) =>
              /\ sys'[p].st = "enter" <=> LiveHandle(sys'[p].id)
              /\ sys'[p].st = "done" =>
                   /\ ret'[p] = (IF sys'[p].call = "alloc" THEN 0 ELSE -1)
                   /\ UNCHANGED <<cache_table, mem, kfl, caches, live>>
         /\ (InSys(p, "destroy", "called") /\ sys'[p].st = "done") =>
              /\ ret'[p] = 0
              /\ TableAt(cache_table', sys[p].id) = NULL
              /\ \A j \in DOMAIN cache_table' : cache_table'[j] = cache_table[j]
              /\ \A j \in OwnHandles \ {sys[p].id} : LiveHandle(j)]_vars

\* A create found the table full and returned -1.
C40_Witness ==
  \E p \in wl.cpus :
    /\ Cardinality(wl.cpus) = 1
    /\ sys[p].call = "full"
    /\ sys[p].st = "done"
    /\ ret[p] = -1
    /\ TableFull(cache_table)
====
